---- MODULE Spec2Model ----
(***************************************************************************)
(* A model of the ufs package: the in-memory store (ufs/impl/memory.py),   *)
(* the fallback operations of the base class (ufs/spec.py), the byte       *)
(* helpers of the path adapter (ufs/access/pathlib.py), copyfile           *)
(* (ufs/access/shutil.py) and the overlay combinator (ufs/impl/overlay.py).*)
(*                                                                         *)
(* Every store operation is an operator from a store value to a result     *)
(* [m, err, ret, data]: the store afterwards, the Python exception class   *)
(* raised ("ok" when none), the integer returned and the bytes returned.   *)
(* The actions apply these operators to the state variables and record the *)
(* call and its outcome in `last`.                                         *)
(*                                                                         *)
(* Paths are sequences of names (<<>> is "/"), bytes are small naturals    *)
(* (0 is the padding byte of io.BytesIO), timestamps are left out.         *)
(***************************************************************************)
EXTENDS Integers, Sequences, FiniteSets, TLC

VARIABLES
  mem,    \* a Memory() store driven directly
  lower,  \* Overlay._lower, a Memory() store
  upper,  \* Overlay._upper, a Memory() store
  ofds,   \* Overlay._fds: overlay handle -> (provider, inner handle)
  ocfd,   \* Overlay._cfd: the next overlay handle
  last,   \* the last call and its outcome
  dirty,  \* history: the handles of mem that write or truncate was called on
  rec,    \* whether `last` and `dirty` are kept (fixed by the initial state)
  dc,     \* a DirCache over a Local store: the store, both caches, _fds, ttl
  now,    \* the value time.time() returns
  wc,     \* a Writecache or an RWCache: a Local store, a Memory store as
          \* scratch, _cfd and _fds
  br,     \* a bridge: Async, Sync or Process with _taskid, both queues, the
          \* worker and the callers of _forward; or the queue and the thread
          \* behind a handle of DescriptorFromAtomicMixin
  mp,     \* a prefix tree and the Mapper over it: the routes, the stores
          \* routed to, _cfd and _fds
  ax      \* a helper of ufs.access or ufs.utils at work: its arguments, its
          \* local variables, the stores it works on and what it gave so far

\* the state of the wrappers around a store
extVars == <<dc, now, wc, br, mp, ax>>

vars == <<mem, lower, upper, ofds, ocfd, last, dirty, rec, dc, now, wc, br, mp, ax>>

----------------------------------------------------------------------------
(* Bounds of the model *)

MaxByte == 1       \* bytes are 0..MaxByte

\* the read/write model: one file, one handle at a time
RwMaxLen == 3      \* longest file content, in bytes
RwMaxFd == 2       \* handles the store hands out before the model stops opening

\* the handle model: one file, several handles
MaxLen == 1        \* longest file content, in bytes
MaxFd == 3         \* handles the store hands out before the model stops opening
MaxOpen == 2       \* handles open at the same time

\* the namespace model: a tree of names
MaxDepth == 2      \* longest path, in components
TreeMaxLen == 1    \* longest file content, in bytes
TreeMaxFd == 2     \* handles the store hands out before the model stops opening

\* the model of the derived operations: two names under the root
DerMaxLen == 1     \* longest file content, in bytes
DerMaxFd == 3      \* handles a store hands out before the model stops opening

\* the overlay model
OvMaxLen == 1      \* longest file content, in bytes
OvMaxFd == 2       \* handles the overlay hands out before the model stops opening
OvMaxOpen == 1     \* handles of the overlay open at the same time
OvInnerFd == 2     \* handles lower or upper hands out before the model stops opening
DcTtl == 1         \* the ttl of the DirCache with ttl > 0, in clock ticks
DcMaxTime == 1     \* the clock stops at this value
DcMaxLen == 1      \* most bytes a handle of the Local store buffers
DcMaxFd == 1       \* handles the Local store hands out before the model stops opening
DcMaxOpen == 1     \* handles of the Local store open at the same time
DcMaxCached == 1   \* entries both caches of the DirCache hold together
DcMaxNodes == 3    \* names the Local store holds, the root included
WcMaxLen == 2      \* longest scratch content, in bytes
WcMaxFd == 2       \* handles a Writecache or RWCache hands out before the model stops opening
WcMaxOpen == 1     \* handles of the wrapper open at the same time
WcInnerFd == 2     \* handles the Local store under the wrapper hands out before the model stops opening
BrCallers == 3     \* callers of _forward, one call each
BrMaxPar == 2      \* requests the executor behind a Sync bridge runs at the same time
LfMaxIds == 7      \* task ids one bridge hands out over its starts and stops
SaMaxLen == 1      \* longest file content behind Sync(Async(Memory())), in bytes
SaMaxFd == 2       \* handles the store hands out before the model stops opening
DfMaxLen == 1      \* longest chunk written through a handle of the descriptor mixin, in bytes
DfMaxWrites == 3   \* write calls on one handle
PtMaxPrefixes == 3 \* prefixes registered in one prefix tree
PtMaxDepth == 2    \* longest prefix and longest query, in components
MpMaxFd == 1       \* handles a Mapper and each of its stores hands out before the model stops opening
MpMaxLen == 1      \* longest file content behind a Mapper, in bytes
WkMaxDepth == 2    \* deepest path of a tree that walk is run on, in components
MvMaxDepth == 2    \* deepest path of a tree that move is run on, in components
FfMaxDepth == 2    \* deepest path of a tree that is mounted, in components
FfMaxEdits == 3    \* changes made in the mount directory while it is mounted
OsMaxCalls == 2    \* calls made on the os-shaped adapter in one run
FuMaxCalls == 3    \* FUSE operations served by one mount
FuMaxLen == 1      \* length a FUSE truncate asks for
BfMaxCalls == 4    \* calls made on one buffered handle
BfMaxLen == 3      \* bytes of the file behind a buffered handle
BfChunk == 2       \* the smaller of the two chunk sizes a buffered handle is built with
CpMaxCalls == 4    \* calls made on a Memory store around one copy
SaMaxCalls == 5    \* operations the one caller issues after start

Names == {"a", "b"}

Byte == 0..MaxByte

RECURSIVE SeqsUpTo(_, _)
SeqsUpTo(S, n) ==
  IF n = 0 THEN {<<>>}
  ELSE LET shorter == SeqsUpTo(S, n - 1)
       IN shorter \cup {Append(s, x) : s \in shorter, x \in S}

\* the tree of the namespace model: both names under the root, one name below
Paths == {p \in SeqsUpTo(Names, MaxDepth) : \A i \in 2..Len(p) : p[i] = "a"}
OnePaths == {<<>>, <<"a">>}

FlatPaths == SeqsUpTo(Names, 1)

\* what bounds the inputs of a next-state relation
RwLim == [paths |-> OnePaths, maxlen |-> RwMaxLen, maxfd |-> RwMaxFd, maxopen |-> 1]
MemLim == [paths |-> OnePaths, maxlen |-> MaxLen, maxfd |-> MaxFd, maxopen |-> MaxOpen]
TreeLim == [paths |-> Paths, maxlen |-> TreeMaxLen, maxfd |-> TreeMaxFd, maxopen |-> 1]
DerLim == [paths |-> FlatPaths, maxlen |-> DerMaxLen, maxfd |-> DerMaxFd,
           maxopen |-> DerMaxFd]
OvPaths == {<<>>, <<"a">>, <<"b">>, <<"a", "a">>}
OvLim == [paths |-> OvPaths, maxlen |-> OvMaxLen, maxfd |-> OvInnerFd,
          maxopen |-> OvInnerFd]

----------------------------------------------------------------------------
(* Program constants *)

FirstFd == 5           \* itertools.count(start=5)
CHUNK_SIZE == 5120     \* UFS.CHUNK_SIZE = 5*1024

Modes == {"rb", "wb", "ab", "rb+", "ab+"}

\* mode.startswith('r'), mode.startswith('a'), 'r' in mode, '+' in mode
ModeStartsR(mode) == mode \in {"rb", "rb+"}
ModeStartsA(mode) == mode \in {"ab", "ab+"}
ModeHasR(mode) == mode \in {"rb", "rb+"}
ModeHasPlus(mode) == mode \in {"rb+", "ab+"}

\* oserror of the OS-shaped adapter: the errno an exception of a store is
\* reported with.  Only a store's OSError(errno.ENOTEMPTY) passes through as
\* ENOTEMPTY; an exception of no listed class is reported as EROFS.
Errno(exc) ==
  CASE exc = "FileNotFoundError" -> "ENOENT"
    [] exc = "FileExistsError" -> "EEXIST"
    [] exc = "NotADirectoryError" -> "ENOTDIR"
    [] exc = "IsADirectoryError" -> "EISDIR"
    [] exc = "PermissionError" -> "EPERM"
    [] exc = "OSError(ENOTEMPTY)" -> "ENOTEMPTY"
    [] exc = "NotImplementedError" -> "ENOTSUP"
    [] OTHER -> "EROFS"

----------------------------------------------------------------------------
(* Paths *)

\* pathparent('/') is '', which is no path of any store
NoPath == <<"">>

pathparent(path) ==
  IF path = <<>> THEN NoPath ELSE SubSeq(path, 1, Len(path) - 1)

pathname(path) ==
  IF path = <<>> THEN "" ELSE path[Len(path)]

----------------------------------------------------------------------------
(* Results and dictionaries *)

NoRet == -1

Ok(m, ret, data) == [m |-> m, err |-> "ok", ret |-> ret, data |-> data]
Raise(m, e) == [m |-> m, err |-> e, ret |-> NoRet, data |-> <<>>]

Put(f, k, v) == [x \in (DOMAIN f) \cup {k} |-> IF x = k THEN v ELSE f[x]]
Del(f, k) == [x \in (DOMAIN f) \ {k} |-> f[x]]

Max(a, b) == IF a > b THEN a ELSE b
Min(a, b) == IF a < b THEN a ELSE b

\* bytes[i:j], 0-based and clipped as Python slices are
Slice(s, i, j) == SubSeq(s, Min(i, Len(s)) + 1, Min(j, Len(s)))

Zeros(n) == [i \in 1..n |-> 0]

----------------------------------------------------------------------------
(* io.BytesIO: a buffer and a cursor *)

\* BytesIO.seek(pos, whence)
StreamSeekPos(stream, cur, pos, whence) ==
  CASE whence = 0 -> pos
    [] whence = 1 -> Max(0, cur + pos)
    [] whence = 2 -> Max(0, Len(stream) + pos)

\* BytesIO.read(amnt): a negative amount reads to the end
StreamRead(stream, cur, amnt) ==
  IF amnt < 0 THEN Slice(stream, cur, Len(stream))
  ELSE Slice(stream, cur, cur + amnt)

\* a write that inserts at the cursor and overwrites nothing
StreamWriteInsert(stream, cur, data) ==
  IF Len(data) = 0 THEN stream
  ELSE LET padded == IF cur > Len(stream)
                     THEN stream \o Zeros(cur - Len(stream)) ELSE stream
       IN Slice(padded, 0, cur) \o data \o Slice(padded, cur, Len(padded))

\* BytesIO.write(data): overwrite at the cursor, padding a gap with zeros;
\* an empty write changes nothing
StreamWrite(stream, cur, data) ==
  IF Len(data) = 0 THEN stream
  ELSE LET padded == IF cur > Len(stream)
                     THEN stream \o Zeros(cur - Len(stream)) ELSE stream
       IN Slice(padded, 0, cur) \o data \o Slice(padded, cur + Len(data), Len(padded))

\* BytesIO.truncate(length): shrinks, never grows, leaves the cursor
StreamTruncate(stream, length) ==
  IF length < Len(stream) THEN SubSeq(stream, 1, length) ELSE stream

----------------------------------------------------------------------------
(* Memory *)

RootInode == [type |-> "directory", size |-> 0, content |-> <<>>]

\* Memory.__init__
MemoryInit ==
  [ inodes |-> (<<>> :> 0),
    heap   |-> (0 :> RootInode),
    dirs   |-> (<<>> :> {}),
    cfd    |-> FirstFd,
    fds    |-> [x \in {} |-> 0] ]

\* the MemoryInode object self._inodes[path]
Inode(m, path) == m.heap[m.inodes[path]]

\* a fresh MemoryInode object
NewId(m) == CHOOSE i \in 0..Cardinality(DOMAIN m.heap) : i \notin DOMAIN m.heap

\* MemoryInode objects no path refers to any more are collected
Collect(m) ==
  [m EXCEPT !.heap = [i \in {m.inodes[p] : p \in DOMAIN m.inodes} |-> m.heap[i]]]

\* Memory.ls
MLs(m, path) ==
  IF path \in DOMAIN m.dirs THEN [err |-> "ok", names |-> m.dirs[path]]
  ELSE [err |-> "FileNotFoundError", names |-> {}]

\* Memory.info
MInfo(m, path) ==
  IF path \in DOMAIN m.inodes
  THEN [err |-> "ok", type |-> Inode(m, path).type, size |-> Inode(m, path).size]
  ELSE [err |-> "FileNotFoundError", type |-> "none", size |-> NoRet]

\* Memory.open
MOpen(m, path, mode) ==
  IF ModeStartsR(mode) /\ path \notin DOMAIN m.inodes
    THEN Raise(m, "FileNotFoundError")
  ELSE IF path \in DOMAIN m.inodes /\ Inode(m, path).type = "directory"
    THEN Raise(m, "IsADirectoryError")
  ELSE IF pathparent(path) \notin DOMAIN m.dirs
    THEN Raise(m, "FileNotFoundError")
  ELSE
    LET m1 == IF path \notin DOMAIN m.inodes
              THEN [m EXCEPT
                      !.inodes = Put(@, path, NewId(m)),
                      !.heap = Put(@, NewId(m),
                                   [type |-> "file", size |-> 0, content |-> <<>>]),
                      !.dirs = [@ EXCEPT ![pathparent(path)] = @ \cup {pathname(path)}]]
              ELSE m
        content == Inode(m1, path).content
        fd == m1.cfd
        pos == IF ModeStartsA(mode) THEN StreamSeekPos(content, 0, 0, 2) ELSE 0
    IN Ok([m1 EXCEPT
             !.cfd = fd + 1,
             !.fds = Put(@, fd, [path |-> path, stream |-> content, pos |-> pos])],
          fd, <<>>)

\* a seek that reports the new position and leaves the cursor where it is
MSeekStays(m, fd, pos, whence) ==
  IF fd \notin DOMAIN m.fds THEN Raise(m, "KeyError")
  ELSE Ok(m, StreamSeekPos(m.fds[fd].stream, m.fds[fd].pos, pos, whence), <<>>)

\* Memory.seek
MSeek(m, fd, pos, whence) ==
  IF fd \notin DOMAIN m.fds THEN Raise(m, "KeyError")
  ELSE IF whence = 0 /\ pos < 0 THEN Raise(m, "ValueError")
  ELSE LET new == StreamSeekPos(m.fds[fd].stream, m.fds[fd].pos, pos, whence)
       IN Ok([m EXCEPT !.fds[fd].pos = new], new, <<>>)

\* Memory.read
MRead(m, fd, amnt) ==
  IF fd \notin DOMAIN m.fds THEN Raise(m, "KeyError")
  ELSE LET buf == StreamRead(m.fds[fd].stream, m.fds[fd].pos, amnt)
       IN Ok([m EXCEPT !.fds[fd].pos = @ + Len(buf)], NoRet, buf)

\* the size update shared by Memory.write and Memory.truncate: it fails when
\* the handle's path has been removed since the open, after the stream changed
SetSize(m, fd, ret) ==
  LET path == m.fds[fd].path
  IN IF path \notin DOMAIN m.inodes THEN Raise(m, "KeyError")
     ELSE Ok([m EXCEPT !.heap[m.inodes[path]].size = Len(m.fds[fd].stream)], ret, <<>>)

\* Memory.write
MWrite(m, fd, data) ==
  IF fd \notin DOMAIN m.fds THEN Raise(m, "KeyError")
  ELSE LET d == m.fds[fd]
           m1 == [m EXCEPT !.fds[fd].stream = StreamWrite(d.stream, d.pos, data),
                           !.fds[fd].pos = d.pos + Len(data)]
       IN SetSize(m1, fd, Len(data))

\* Memory.truncate
MTruncate(m, fd, length) ==
  IF fd \notin DOMAIN m.fds THEN Raise(m, "KeyError")
  ELSE IF length < 0 THEN Raise(m, "ValueError")
  ELSE LET m1 == [m EXCEPT !.fds[fd].stream = StreamTruncate(@, length)]
       IN SetSize(m1, fd, length)

\* a close that writes the stream back and keeps the entry of the handle
MCloseKeepsEntry(m, fd) ==
  IF fd \notin DOMAIN m.fds THEN Raise(m, "KeyError")
  ELSE LET d == m.fds[fd]
       IN IF d.path \notin DOMAIN m.inodes THEN Raise(m, "KeyError")
          ELSE Ok([m EXCEPT !.heap[m.inodes[d.path]].content = d.stream,
                            !.heap[m.inodes[d.path]].size = Len(d.stream)],
                  NoRet, <<>>)

\* Memory.close
MClose(m, fd) ==
  IF fd \notin DOMAIN m.fds THEN Raise(m, "KeyError")
  ELSE LET d == m.fds[fd]
           m1 == [m EXCEPT !.fds = Del(@, fd)]
       IN IF d.path \notin DOMAIN m1.inodes THEN Raise(m1, "KeyError")
          ELSE Ok([m1 EXCEPT !.heap[m1.inodes[d.path]].content = d.stream,
                             !.heap[m1.inodes[d.path]].size = Len(d.stream)],
                  NoRet, <<>>)

\* an unlink that drops the inode and keeps the name in the listing
MUnlinkKeepsName(m, path) ==
  IF path \notin DOMAIN m.inodes THEN Raise(m, "FileNotFoundError")
  ELSE IF Inode(m, path).type = "directory" THEN Raise(m, "IsADirectoryError")
  ELSE Ok(Collect([m EXCEPT !.inodes = Del(@, path)]), NoRet, <<>>)

\* Memory.unlink
MUnlink(m, path) ==
  IF path \notin DOMAIN m.inodes THEN Raise(m, "FileNotFoundError")
  ELSE IF Inode(m, path).type = "directory" THEN Raise(m, "IsADirectoryError")
  ELSE IF pathparent(path) \notin DOMAIN m.dirs
          \/ pathname(path) \notin m.dirs[pathparent(path)]
    THEN Raise(m, "KeyError")
  ELSE Ok(Collect([m EXCEPT
                     !.dirs[pathparent(path)] = @ \ {pathname(path)},
                     !.inodes = Del(@, path)]),
          NoRet, <<>>)

\* Memory.mkdir
MMkdir(m, path) ==
  IF path \in DOMAIN m.inodes THEN Raise(m, "FileExistsError")
  ELSE IF pathparent(path) \notin DOMAIN m.dirs THEN Raise(m, "FileNotFoundError")
  ELSE Ok([m EXCEPT
             !.inodes = Put(@, path, NewId(m)),
             !.heap = Put(@, NewId(m), RootInode),
             !.dirs = [x \in (DOMAIN @) \cup {path} |->
                         IF x = path THEN {}
                         ELSE IF x = pathparent(path) THEN @[x] \cup {pathname(path)}
                         ELSE @[x]]],
          NoRet, <<>>)

\* Memory.rmdir
MRmdir(m, path) ==
  IF path \notin DOMAIN m.inodes THEN Raise(m, "FileNotFoundError")
  ELSE IF path \notin DOMAIN m.dirs THEN Raise(m, "NotADirectoryError")
  ELSE IF m.dirs[path] # {} THEN Raise(m, "RuntimeError")
  ELSE IF pathparent(path) \notin DOMAIN m.dirs
          \/ pathname(path) \notin m.dirs[pathparent(path)]
    THEN Raise(m, "KeyError")
  ELSE Ok(Collect([m EXCEPT
                     !.dirs = Del([@ EXCEPT ![pathparent(path)] = @ \ {pathname(path)}],
                                  path),
                     !.inodes = Del(@, path)]),
          NoRet, <<>>)

\* Memory.copy: dst becomes another name of the MemoryInode object of src
MCopy(m, src, dst) ==
  IF src \notin DOMAIN m.inodes THEN Raise(m, "FileNotFoundError")
  ELSE IF Inode(m, src).type = "directory" THEN Raise(m, "IsADirectoryError")
  ELSE IF dst \in DOMAIN m.inodes THEN Raise(m, "FileExistsError")
  ELSE IF pathparent(dst) \notin DOMAIN m.dirs THEN Raise(m, "FileNotFoundError")
  ELSE Ok([m EXCEPT
             !.inodes = Put(@, dst, m.inodes[src]),
             !.dirs[pathparent(dst)] = @ \cup {pathname(dst)}],
          NoRet, <<>>)

----------------------------------------------------------------------------
(* UPath.read_bytes and UPath.write_bytes on a Memory store *)

\* a local variable: v is evaluated once and F is applied to its value
Bind(v, F(_)) == CHOOSE r \in {F(x) : x \in {v}} : TRUE

\* UPath.read_bytes: open 'rb', read(-1), close
ReadBytes(m, path) ==
  Bind(MOpen(m, path, "rb"), LAMBDA o :
    IF o.err # "ok" THEN Raise(o.m, o.err) ELSE
    Bind(MRead(o.m, o.ret, -1), LAMBDA r :
      IF r.err # "ok" THEN Raise(r.m, r.err) ELSE
      Bind(MClose(r.m, o.ret), LAMBDA c :
        IF c.err # "ok" THEN Raise(c.m, c.err) ELSE Ok(c.m, NoRet, r.data))))

\* UPath.write_bytes: open 'wb', write, close
WriteBytes(m, path, text) ==
  Bind(MOpen(m, path, "wb"), LAMBDA o :
    IF o.err # "ok" THEN Raise(o.m, o.err) ELSE
    Bind(MWrite(o.m, o.ret, text), LAMBDA w :
      IF w.err # "ok" THEN Raise(w.m, w.err) ELSE
      Bind(MClose(w.m, o.ret), LAMBDA c :
        IF c.err # "ok" THEN Raise(c.m, c.err) ELSE Ok(c.m, w.ret, <<>>))))

----------------------------------------------------------------------------
(* The fallbacks of the base class UFS, run against a Memory store *)

\* the read loop of cat: read CHUNK_SIZE bytes until a read returns nothing
RECURSIVE CatLoop(_, _, _)
CatLoop(m, fd, acc) ==
  Bind(MRead(m, fd, CHUNK_SIZE), LAMBDA r :
    IF r.err # "ok" THEN Raise(r.m, r.err)
    ELSE IF r.data = <<>> THEN Ok(r.m, NoRet, acc)
    ELSE CatLoop(r.m, fd, acc \o r.data))

\* AtomicFromDescriptorMixin.cat, the generator run to its end
UFSCat(m, path) ==
  Bind(MOpen(m, path, "rb"), LAMBDA o :
    IF o.err # "ok" THEN Raise(o.m, o.err) ELSE
    Bind(CatLoop(o.m, o.ret, <<>>), LAMBDA l :
      IF l.err # "ok" THEN Raise(l.m, l.err) ELSE
      Bind(MClose(l.m, o.ret), LAMBDA c :
        IF c.err # "ok" THEN Raise(c.m, c.err) ELSE Ok(c.m, NoRet, l.data))))

\* the write loop of put
RECURSIVE PutLoop(_, _, _, _)
PutLoop(m, fd, chunks, i) ==
  IF i > Len(chunks) THEN Ok(m, NoRet, <<>>)
  ELSE Bind(MWrite(m, fd, chunks[i]), LAMBDA w :
         IF w.err # "ok" THEN Raise(w.m, w.err)
         ELSE PutLoop(w.m, fd, chunks, i + 1))

\* AtomicFromDescriptorMixin.put
UFSPut(m, path, chunks) ==
  Bind(MOpen(m, path, "wb"), LAMBDA o :
    IF o.err # "ok" THEN Raise(o.m, o.err) ELSE
    Bind(PutLoop(o.m, o.ret, chunks, 1), LAMBDA l :
      IF l.err # "ok" THEN Raise(l.m, l.err) ELSE
      Bind(MClose(l.m, o.ret), LAMBDA c :
        IF c.err # "ok" THEN Raise(c.m, c.err) ELSE Ok(c.m, NoRet, <<>>))))

\* the copy loop of UFS.copy and of copyfile: read from one store's handle,
\* write to the other's, until a read returns nothing.  The result carries
\* both stores (the same store twice when the copy is within one store).
RECURSIVE CopyLoop(_, _, _, _, _)
CopyLoop(src, dst, src_fd, dst_fd, same) ==
  Bind(MRead(src, src_fd, CHUNK_SIZE), LAMBDA r :
    IF r.err # "ok" THEN [src |-> r.m, dst |-> IF same THEN r.m ELSE dst, err |-> r.err]
    ELSE IF r.data = <<>>
      THEN [src |-> r.m, dst |-> IF same THEN r.m ELSE dst, err |-> "ok"]
    ELSE Bind(MWrite(IF same THEN r.m ELSE dst, dst_fd, r.data), LAMBDA w :
           IF w.err # "ok"
           THEN [src |-> IF same THEN w.m ELSE r.m, dst |-> w.m, err |-> w.err]
           ELSE CopyLoop(IF same THEN w.m ELSE r.m, w.m, src_fd, dst_fd, same)))

\* self.close(dst), self.close(src) of UFS.copy: the argument is the path, and
\* the handle table has no such key
CloseByPath(m, path) == Raise(m, "KeyError")

\* UFS.copy
UFSCopy(m, src, dst) ==
  Bind(MInfo(m, src), LAMBDA i :
    IF i.err # "ok" THEN Raise(m, i.err)
    ELSE IF i.type # "file" THEN Raise(m, "IsADirectoryError") ELSE
    Bind(MOpen(m, src, "rb"), LAMBDA s :
      IF s.err # "ok" THEN Raise(s.m, s.err) ELSE
      Bind(MOpen(s.m, dst, "wb"), LAMBDA d :
        IF d.err # "ok" THEN Raise(d.m, d.err) ELSE
        Bind(CopyLoop(d.m, d.m, s.ret, d.ret, TRUE), LAMBDA l :
          IF l.err # "ok" THEN Raise(l.dst, l.err) ELSE
          Bind(CloseByPath(l.dst, dst), LAMBDA c1 :
            IF c1.err # "ok" THEN Raise(c1.m, c1.err) ELSE
            Bind(CloseByPath(c1.m, src), LAMBDA c2 :
              IF c2.err # "ok" THEN Raise(c2.m, c2.err)
              ELSE Ok(c2.m, NoRet, <<>>)))))))

\* a rename that copies and leaves the source where it was
MRenameKeepsSrc(m, src, dst) ==
  Bind(MCopy(m, src, dst), LAMBDA c :
    IF c.err # "ok" THEN Raise(c.m, c.err) ELSE Ok(c.m, NoRet, <<>>))

\* UFS.rename on Memory: self.copy is Memory.copy
MRename(m, src, dst) ==
  Bind(MCopy(m, src, dst), LAMBDA c :
    IF c.err # "ok" THEN Raise(c.m, c.err) ELSE
    Bind(MUnlink(c.m, src), LAMBDA u :
      IF u.err # "ok" THEN Raise(u.m, u.err) ELSE Ok(u.m, NoRet, <<>>)))

----------------------------------------------------------------------------
(* copyfile between two different stores *)

\* copyfile, src_ufs is not dst_ufs: open both, copy, close both
CopyFile(s, d, src_path, dst_path) ==
  Bind(MOpen(s, src_path, "rb"), LAMBDA o1 :
    IF o1.err # "ok" THEN [src |-> o1.m, dst |-> d, err |-> o1.err] ELSE
    Bind(MOpen(d, dst_path, "wb"), LAMBDA o2 :
      IF o2.err # "ok" THEN [src |-> o1.m, dst |-> o2.m, err |-> o2.err] ELSE
      Bind(CopyLoop(o1.m, o2.m, o1.ret, o2.ret, FALSE), LAMBDA l :
        IF l.err # "ok" THEN l ELSE
        Bind(MClose(l.dst, o2.ret), LAMBDA c1 :
          IF c1.err # "ok" THEN [src |-> l.src, dst |-> c1.m, err |-> c1.err] ELSE
          Bind(MClose(l.src, o1.ret), LAMBDA c2 :
            [src |-> c2.m, dst |-> c1.m, err |-> c2.err])))))

----------------------------------------------------------------------------
(* Overlay(lower, upper): ov is [lower, upper, fds, cfd] *)

OvOk(ov, ret, data) == [ov |-> ov, err |-> "ok", ret |-> ret, data |-> data]
OvRaise(ov, e) == [ov |-> ov, err |-> e, ret |-> NoRet, data |-> <<>>]

\* cfd = next(self._cfd); self._fds[cfd] = (provider, fd)
OvRegister(ov, provider, fd) ==
  OvOk([ov EXCEPT !.cfd = @ + 1,
                  !.fds = Put(@, ov.cfd, [provider |-> provider, fd |-> fd])],
       ov.cfd, <<>>)

\* Overlay.open, a mode with 'r' and without '+'
OvOpenRead(ov, path, mode) ==
  Bind(MOpen(ov.upper, path, mode), LAMBDA u :
    IF u.err = "ok" THEN OvRegister([ov EXCEPT !.upper = u.m], "upper", u.ret)
    ELSE IF u.err # "FileNotFoundError" THEN OvRaise(ov, u.err)
    ELSE Bind(MOpen(ov.lower, path, mode), LAMBDA l :
           IF l.err = "ok" THEN OvRegister([ov EXCEPT !.lower = l.m], "lower", l.ret)
           ELSE OvRaise(ov, l.err)))

\* Overlay.open, a mode with '+': copy the file up when upper does not find it
OvOpenUpdate(ov, path, mode) ==
  Bind(MOpen(ov.upper, path, mode), LAMBDA u :
    IF u.err = "ok" THEN OvRegister([ov EXCEPT !.upper = u.m], "upper", u.ret)
    ELSE IF u.err # "FileNotFoundError" THEN OvRaise(ov, u.err)
    ELSE Bind(CopyFile(ov.lower, ov.upper, path, path), LAMBDA c :
           Bind([ov EXCEPT !.lower = c.src, !.upper = c.dst], LAMBDA ov1 :
             IF c.err # "ok" THEN OvRaise(ov1, c.err)
             ELSE Bind(MOpen(ov1.upper, path, mode), LAMBDA u2 :
                    IF u2.err = "ok"
                    THEN OvRegister([ov1 EXCEPT !.upper = u2.m], "upper", u2.ret)
                    ELSE OvRaise(ov1, u2.err)))))

\* Overlay.open, any other mode
OvOpenWrite(ov, path, mode) ==
  Bind(MOpen(ov.upper, path, mode), LAMBDA u :
    IF u.err = "ok" THEN OvRegister([ov EXCEPT !.upper = u.m], "upper", u.ret)
    ELSE OvRaise(ov, u.err))

\* Overlay.open
OvOpen(ov, path, mode) ==
  IF ModeHasR(mode) /\ ~ModeHasPlus(mode) THEN OvOpenRead(ov, path, mode)
  ELSE IF ModeHasPlus(mode) THEN OvOpenUpdate(ov, path, mode)
  ELSE OvOpenWrite(ov, path, mode)

\* the provider's store, and the overlay with the provider's store replaced
Provider(ov, fd) == IF ov.fds[fd].provider = "upper" THEN ov.upper ELSE ov.lower
WithProvider(ov, fd, m) ==
  IF ov.fds[fd].provider = "upper" THEN [ov EXCEPT !.upper = m]
  ELSE [ov EXCEPT !.lower = m]

\* the result of a provider's handle operation as the overlay's result
Forward(ov, fd, r) ==
  Bind(r, LAMBDA x :
    [ov |-> WithProvider(ov, fd, x.m), err |-> x.err, ret |-> x.ret, data |-> x.data])

\* Overlay.seek
OvSeek(ov, fd, pos, whence) ==
  IF fd \notin DOMAIN ov.fds THEN OvRaise(ov, "KeyError")
  ELSE Forward(ov, fd, MSeek(Provider(ov, fd), ov.fds[fd].fd, pos, whence))

\* Overlay.read
OvRead(ov, fd, amnt) ==
  IF fd \notin DOMAIN ov.fds THEN OvRaise(ov, "KeyError")
  ELSE Forward(ov, fd, MRead(Provider(ov, fd), ov.fds[fd].fd, amnt))

\* Overlay.write: assert provider is self._upper
OvWrite(ov, fd, data) ==
  IF fd \notin DOMAIN ov.fds THEN OvRaise(ov, "KeyError")
  ELSE IF ov.fds[fd].provider # "upper" THEN OvRaise(ov, "AssertionError")
  ELSE Forward(ov, fd, MWrite(Provider(ov, fd), ov.fds[fd].fd, data))

\* Overlay.truncate
OvTruncate(ov, fd, length) ==
  IF fd \notin DOMAIN ov.fds THEN OvRaise(ov, "KeyError")
  ELSE Forward(ov, fd, MTruncate(Provider(ov, fd), ov.fds[fd].fd, length))

\* Overlay.flush: Memory inherits the flush of UFS, which does nothing
OvFlush(ov, fd) ==
  IF fd \notin DOMAIN ov.fds THEN OvRaise(ov, "KeyError")
  ELSE OvOk(ov, NoRet, <<>>)

\* Overlay.close
OvClose(ov, fd) ==
  IF fd \notin DOMAIN ov.fds THEN OvRaise(ov, "KeyError")
  ELSE Bind(MClose(Provider(ov, fd), ov.fds[fd].fd), LAMBDA r :
         [ov |-> [WithProvider(ov, fd, r.m) EXCEPT !.fds = Del(@, fd)],
          err |-> r.err, ret |-> r.ret, data |-> r.data])

\* the result of an operation of upper as the overlay's result
OnUpper(ov, r) ==
  Bind(r, LAMBDA x :
    [ov |-> [ov EXCEPT !.upper = x.m], err |-> x.err, ret |-> x.ret, data |-> x.data])

\* Overlay.unlink, Overlay.mkdir, Overlay.rmdir
OvUnlink(ov, path) == OnUpper(ov, MUnlink(ov.upper, path))
OvMkdir(ov, path) == OnUpper(ov, MMkdir(ov.upper, path))
OvRmdir(ov, path) == OnUpper(ov, MRmdir(ov.upper, path))

\* Overlay.copy: a FileNotFoundError of upper's info or of upper's copy falls
\* back to copyfile from lower
OvCopy(ov, src, dst) ==
  Bind(MInfo(ov.upper, src), LAMBDA i :
    Bind(IF i.err # "ok" THEN Raise(ov.upper, i.err)
         ELSE IF i.type = "file" THEN MCopy(ov.upper, src, dst)
         ELSE Raise(ov.upper, "IsADirectoryError"), LAMBDA viaUpper :
      IF viaUpper.err # "FileNotFoundError" THEN OnUpper(ov, viaUpper)
      ELSE Bind(CopyFile(ov.lower, ov.upper, src, dst), LAMBDA f :
             [ov |-> [ov EXCEPT !.lower = f.src, !.upper = f.dst],
              err |-> f.err, ret |-> NoRet, data |-> <<>>])))

\* Overlay.rename: upper's rename; when upper does not find the source, a file
\* of lower is refused and anything else of lower returns with nothing done
OvRename(ov, src, dst) ==
  Bind(MRename(ov.upper, src, dst), LAMBDA r :
    IF r.err # "FileNotFoundError" THEN OnUpper(ov, r)
    ELSE Bind(MInfo(ov.lower, src), LAMBDA i :
           IF i.err # "ok" THEN OvRaise([ov EXCEPT !.upper = r.m], i.err)
           ELSE IF i.type = "file"
             THEN OvRaise([ov EXCEPT !.upper = r.m], "PermissionError")
           ELSE OvOk([ov EXCEPT !.upper = r.m], NoRet, <<>>)))

\* Overlay.ls
OvLs(ov, path) ==
  LET u == MLs(ov.upper, path)
      l == MLs(ov.lower, path)
  IN IF u.err # "ok" /\ l.err # "ok"
     THEN [err |-> "FileNotFoundError", names |-> {}]
     ELSE [err |-> "ok",
           names |-> (IF u.err = "ok" THEN u.names ELSE {})
                     \cup (IF l.err = "ok" THEN l.names ELSE {})]

\* an info that asks lower first and upper only when lower does not find it
OvInfoLowerFirst(ov, path) ==
  LET l == MInfo(ov.lower, path) IN
  IF l.err = "FileNotFoundError" THEN MInfo(ov.upper, path) ELSE l

\* Overlay.info
OvInfo(ov, path) ==
  LET u == MInfo(ov.upper, path) IN
  IF u.err = "FileNotFoundError" THEN MInfo(ov.lower, path) ELSE u

----------------------------------------------------------------------------
(* The state and the record of the last call *)

NoFd == -1

\* what `last` keeps of a call: the operation, its path and handle arguments,
\* the bytes passed in, and the exception raised
Call(op, path, dst, fd, data, r) ==
  [ op |-> op, path |-> path, dst |-> dst, fd |-> fd, data |-> data, err |-> r.err ]

NoCall == Call("none", <<>>, <<>>, NoFd, <<>>, Ok(MemoryInit, NoRet, <<>>))

\* a Memory store may still hand out n handles
CanOpen(m, n, lim) ==
  /\ m.cfd + n <= FirstFd + lim.maxfd
  /\ Cardinality(DOMAIN m.fds) + n <= lim.maxopen

\* a write of data through handle fd keeps the stream within the longest content
FitsWrite(m, fd, data, lim) ==
  fd \in DOMAIN m.fds => (data = <<>> \/ m.fds[fd].pos + Len(data) <= lim.maxlen)

\* a seek keeps the cursor within the longest content
FitsSeek(m, fd, pos, whence, lim) ==
  fd \in DOMAIN m.fds =>
    StreamSeekPos(m.fds[fd].stream, m.fds[fd].pos, pos, whence) <= lim.maxlen

----------------------------------------------------------------------------
(* A Memory store driven directly *)

\* no wrapper is constructed in the models of the stores and of the overlay
NoWrappers ==
  /\ dc = <<>>
  /\ now = 0
  /\ wc = <<>>
  /\ br = <<>>
  /\ mp = <<>> /\ ax = <<>>

InitStores ==
  /\ NoWrappers
  /\ mem = MemoryInit
  /\ lower = MemoryInit
  /\ upper = MemoryInit
  /\ ofds = [x \in {} |-> 0]
  /\ ocfd = 0
  /\ last = NoCall
  /\ dirty = {}

InitMem == InitStores /\ rec = TRUE

\* the namespace model keeps no record of the calls
InitTree == InitStores /\ rec = FALSE

MemStep(r, call) ==
  /\ mem' = r.m
  /\ last' = IF rec THEN call ELSE NoCall
  /\ dirty' = IF rec /\ call.op \in {"write", "truncate"} /\ call.fd \in DOMAIN mem.fds
              THEN dirty \cup {call.fd} ELSE dirty
  /\ UNCHANGED <<lower, upper, ofds, ocfd, rec, extVars>>

Open(path, mode) ==
  LET r == MOpen(mem, path, mode)
  IN MemStep(r, Call("open", path, <<>>, NoFd, <<>>, r))

Seek(fd, pos, whence) ==
  LET r == MSeek(mem, fd, pos, whence)
  IN MemStep(r, Call("seek", <<>>, <<>>, fd, <<>>, r))

Read(fd, amnt) ==
  LET r == MRead(mem, fd, amnt)
  IN MemStep(r, Call("read", <<>>, <<>>, fd, <<>>, r))

Write(fd, data) ==
  LET r == MWrite(mem, fd, data)
  IN MemStep(r, Call("write", <<>>, <<>>, fd, data, r))

Truncate(fd, length) ==
  LET r == MTruncate(mem, fd, length)
  IN MemStep(r, Call("truncate", <<>>, <<>>, fd, <<>>, r))

Close(fd) ==
  LET r == MClose(mem, fd)
  IN MemStep(r, Call("close", <<>>, <<>>, fd, <<>>, r))

Unlink(path) ==
  LET r == MUnlink(mem, path)
  IN MemStep(r, Call("unlink", path, <<>>, NoFd, <<>>, r))

Mkdir(path) ==
  LET r == MMkdir(mem, path)
  IN MemStep(r, Call("mkdir", path, <<>>, NoFd, <<>>, r))

Rmdir(path) ==
  LET r == MRmdir(mem, path)
  IN MemStep(r, Call("rmdir", path, <<>>, NoFd, <<>>, r))

Copy(src, dst) ==
  LET r == MCopy(mem, src, dst)
  IN MemStep(r, Call("copy", src, dst, NoFd, <<>>, r))

Rename(src, dst) ==
  LET r == MRename(mem, src, dst)
  IN MemStep(r, Call("rename", src, dst, NoFd, <<>>, r))

DoWriteBytes(path, text) ==
  LET r == WriteBytes(mem, path, text)
  IN MemStep(r, Call("write_bytes", path, <<>>, NoFd, text, r))

DoReadBytes(path) ==
  LET r == ReadBytes(mem, path)
  IN MemStep(r, Call("read_bytes", path, <<>>, NoFd, <<>>, r))

Cat(path) ==
  LET r == UFSCat(mem, path)
  IN MemStep(r, Call("cat", path, <<>>, NoFd, <<>>, r))

\* put with the data in one chunk (cut = 0) or split in two at cut
PutData(path, data, cut) ==
  LET chunks == IF cut = 0 THEN <<data>>
                ELSE <<SubSeq(data, 1, cut), SubSeq(data, cut + 1, Len(data))>>
      r == UFSPut(mem, path, chunks)
  IN MemStep(r, Call("put", path, <<>>, NoFd, data, r))

\* the base class's copy, as a store that does not override it runs it
DefaultCopy(src, dst) ==
  LET r == UFSCopy(mem, src, dst)
  IN MemStep(r, Call("ufs_copy", src, dst, NoFd, <<>>, r))

\* the read/write model: one file and one handle at a time, with the byte
\* helpers of the path adapter
NextRW ==
  LET lim == RwLim
      Fds == FirstFd..(FirstFd + lim.maxfd - 1)
      Datas == SeqsUpTo(Byte, lim.maxlen)
  IN
  \/ \E path \in lim.paths, mode \in Modes : CanOpen(mem, 1, lim) /\ Open(path, mode)
  \/ \E fd \in Fds, pos \in (-1)..lim.maxlen, whence \in 0..2 :
       FitsSeek(mem, fd, pos, whence, lim) /\ Seek(fd, pos, whence)
  \/ \E fd \in Fds, amnt \in (-1)..lim.maxlen : Read(fd, amnt)
  \/ \E fd \in Fds, data \in Datas : FitsWrite(mem, fd, data, lim) /\ Write(fd, data)
  \/ \E fd \in Fds, length \in 0..lim.maxlen : Truncate(fd, length)
  \/ \E fd \in Fds : Close(fd)
  \/ \E path \in lim.paths, text \in Datas :
       CanOpen(mem, 1, lim) /\ DoWriteBytes(path, text)
  \/ \E path \in lim.paths : CanOpen(mem, 1, lim) /\ DoReadBytes(path)

SpecRW == InitMem /\ [][NextRW]_vars

\* the handle model: every handle operation of a Memory store on one name,
\* several handles open at once
NextMem ==
  LET lim == MemLim
      Fds == FirstFd..(FirstFd + lim.maxfd - 1)
      Datas == SeqsUpTo(Byte, lim.maxlen)
  IN
  \/ \E path \in lim.paths, mode \in Modes : CanOpen(mem, 1, lim) /\ Open(path, mode)
  \/ \E fd \in Fds, pos \in (-1)..lim.maxlen, whence \in 0..2 :
       FitsSeek(mem, fd, pos, whence, lim) /\ Seek(fd, pos, whence)
  \/ \E fd \in Fds, amnt \in (-1)..lim.maxlen : Read(fd, amnt)
  \/ \E fd \in Fds, data \in Datas : FitsWrite(mem, fd, data, lim) /\ Write(fd, data)
  \/ \E fd \in Fds, length \in 0..lim.maxlen : Truncate(fd, length)
  \/ \E fd \in Fds : Close(fd)
  \/ \E path \in lim.paths : Unlink(path)
  \/ \E path \in lim.paths : Mkdir(path)
  \/ \E path \in lim.paths : Rmdir(path)

SpecMem == InitMem /\ [][NextMem]_vars

\* the namespace model: a Memory store over a tree of names
NextTree ==
  LET lim == TreeLim
      Fds == FirstFd..(FirstFd + lim.maxfd - 1)
      Datas == SeqsUpTo(Byte, lim.maxlen)
  IN
  \/ \E path \in lim.paths, mode \in Modes : CanOpen(mem, 1, lim) /\ Open(path, mode)
  \/ \E fd \in Fds, data \in Datas : FitsWrite(mem, fd, data, lim) /\ Write(fd, data)
  \/ \E fd \in Fds, length \in 0..lim.maxlen : Truncate(fd, length)
  \/ \E fd \in Fds : Close(fd)
  \/ \E path \in lim.paths : Unlink(path)
  \/ \E path \in lim.paths : Mkdir(path)
  \/ \E path \in lim.paths : Rmdir(path)
  \/ \E src \in lim.paths, dst \in lim.paths : Copy(src, dst)
  \/ \E src \in lim.paths, dst \in lim.paths : Rename(src, dst)

SpecTree == InitTree /\ [][NextTree]_vars

\* copyfile(mem, src, upper, dst): a copy from the store to a second store
DoCopyFile(src, dst) ==
  LET c == CopyFile(mem, upper, src, dst) IN
  /\ mem' = c.src
  /\ upper' = c.dst
  /\ last' = IF rec THEN Call("copyfile", src, dst, NoFd, <<>>, c) ELSE NoCall
  /\ UNCHANGED <<lower, ofds, ocfd, dirty, rec, extVars>>

\* the model of the derived operations: the fallbacks of the base class and
\* copyfile, on a Memory store with two names
NextDerived ==
  LET lim == DerLim
      Datas == SeqsUpTo(Byte, lim.maxlen)
  IN
  \/ \E path \in lim.paths, text \in Datas :
       CanOpen(mem, 1, lim) /\ DoWriteBytes(path, text)
  \/ \E path \in lim.paths : Mkdir(path)
  \/ \E path \in lim.paths : Unlink(path)
  \/ \E src \in lim.paths, dst \in lim.paths : Copy(src, dst)
  \/ \E src \in lim.paths, dst \in lim.paths : Rename(src, dst)
  \/ \E path \in lim.paths : CanOpen(mem, 1, lim) /\ Cat(path)
  \/ \E path \in lim.paths, data \in Datas, cut \in 0..lim.maxlen :
       cut <= Len(data) /\ CanOpen(mem, 1, lim) /\ PutData(path, data, cut)
  \/ \E src \in lim.paths, dst \in lim.paths :
       CanOpen(mem, 2, lim) /\ DefaultCopy(src, dst)
  \/ \E src \in lim.paths, dst \in lim.paths :
       CanOpen(mem, 1, lim) /\ CanOpen(upper, 1, lim) /\ DoCopyFile(src, dst)

SpecDerived == InitMem /\ [][NextDerived]_vars

----------------------------------------------------------------------------
(* Overlay(lower, upper) over two Memory stores *)

Ov == [lower |-> lower, upper |-> upper, fds |-> ofds, cfd |-> ocfd]

\* what lower holds when the overlay is built: written directly, before
LowerSeeds ==
  { WriteBytes(MemoryInit, <<"a">>, <<1>>).m,
    WriteBytes(MMkdir(MemoryInit, <<"a">>).m, <<"a", "a">>, <<1>>).m }

InitOv ==
  /\ NoWrappers
  /\ mem = MemoryInit
  /\ lower \in LowerSeeds
  /\ upper = MemoryInit
  /\ ofds = [x \in {} |-> 0]
  /\ ocfd = 0
  /\ last = NoCall
  /\ dirty = {}
  /\ rec = FALSE

OvStep(r, call) ==
  /\ lower' = r.ov.lower
  /\ upper' = r.ov.upper
  /\ ofds' = r.ov.fds
  /\ ocfd' = r.ov.cfd
  /\ last' = IF rec THEN call ELSE NoCall
  /\ UNCHANGED <<mem, dirty, rec, extVars>>

\* the overlay, and both stores under it, may still hand out the handles an
\* open in this mode takes: an update mode may copy the file up first
OvCanOpen(lim, mode) ==
  /\ ocfd < OvMaxFd
  /\ Cardinality(DOMAIN ofds) < OvMaxOpen
  /\ CanOpen(lower, 1, lim)
  /\ CanOpen(upper, IF ModeHasPlus(mode) THEN 2 ELSE 1, lim)

\* the provider's handle behind an overlay handle, for the bounds of the inputs
Inner(fd) == IF fd \in DOMAIN ofds THEN ofds[fd].fd ELSE NoFd
InnerStore(fd) ==
  IF fd \in DOMAIN ofds /\ ofds[fd].provider = "lower" THEN lower ELSE upper

OOpen(path, mode) ==
  LET r == OvOpen(Ov, path, mode)
  IN OvStep(r, Call("open", path, <<>>, NoFd, <<>>, r))

OSeek(fd, pos, whence) ==
  LET r == OvSeek(Ov, fd, pos, whence)
  IN OvStep(r, Call("seek", <<>>, <<>>, fd, <<>>, r))

ORead(fd, amnt) ==
  LET r == OvRead(Ov, fd, amnt)
  IN OvStep(r, Call("read", <<>>, <<>>, fd, <<>>, r))

OWrite(fd, data) ==
  LET r == OvWrite(Ov, fd, data)
  IN OvStep(r, Call("write", <<>>, <<>>, fd, data, r))

OTruncate(fd, length) ==
  LET r == OvTruncate(Ov, fd, length)
  IN OvStep(r, Call("truncate", <<>>, <<>>, fd, <<>>, r))

OFlush(fd) ==
  LET r == OvFlush(Ov, fd)
  IN OvStep(r, Call("flush", <<>>, <<>>, fd, <<>>, r))

OClose(fd) ==
  LET r == OvClose(Ov, fd)
  IN OvStep(r, Call("close", <<>>, <<>>, fd, <<>>, r))

OUnlink(path) ==
  LET r == OvUnlink(Ov, path)
  IN OvStep(r, Call("unlink", path, <<>>, NoFd, <<>>, r))

OMkdir(path) ==
  LET r == OvMkdir(Ov, path)
  IN OvStep(r, Call("mkdir", path, <<>>, NoFd, <<>>, r))

ORmdir(path) ==
  LET r == OvRmdir(Ov, path)
  IN OvStep(r, Call("rmdir", path, <<>>, NoFd, <<>>, r))

OCopy(src, dst) ==
  LET r == OvCopy(Ov, src, dst)
  IN OvStep(r, Call("copy", src, dst, NoFd, <<>>, r))

ORename(src, dst) ==
  LET r == OvRename(Ov, src, dst)
  IN OvStep(r, Call("rename", src, dst, NoFd, <<>>, r))

NextOv ==
  LET lim == OvLim
      Fds == 0..(OvMaxFd - 1)
      Datas == SeqsUpTo(Byte, lim.maxlen)
  IN
  \/ \E path \in lim.paths, mode \in Modes : OvCanOpen(lim, mode) /\ OOpen(path, mode)
  \/ \E fd \in Fds, pos \in (-1)..lim.maxlen, whence \in 0..2 :
       FitsSeek(InnerStore(fd), Inner(fd), pos, whence, lim) /\ OSeek(fd, pos, whence)
  \/ \E fd \in Fds, amnt \in (-1)..lim.maxlen : ORead(fd, amnt)
  \/ \E fd \in Fds, data \in Datas :
       FitsWrite(InnerStore(fd), Inner(fd), data, lim) /\ OWrite(fd, data)
  \/ \E fd \in Fds, length \in 0..lim.maxlen : OTruncate(fd, length)
  \/ \E fd \in Fds : OFlush(fd)
  \/ \E fd \in Fds : OClose(fd)
  \/ \E path \in lim.paths : OUnlink(path)
  \/ \E path \in lim.paths : OMkdir(path)
  \/ \E path \in lim.paths : ORmdir(path)
  \/ \E src \in lim.paths, dst \in lim.paths :
       CanOpen(lower, 1, lim) /\ CanOpen(upper, 1, lim) /\ OCopy(src, dst)
  \/ \E src \in lim.paths, dst \in lim.paths : ORename(src, dst)

SpecOv == InitOv /\ [][NextOv]_vars

----------------------------------------------------------------------------
(* Claims on the read/write model (SpecRW) *)

\* C1: after write_bytes(p, c) returns, read_bytes(p) returns exactly c and
\* info(p) reports the size len(c), whatever the file held before.
C1_WriteBytesRoundTrip ==
  (last.op = "write_bytes" /\ last.err = "ok") =>
    /\ ReadBytes(mem, last.path).err = "ok"
    /\ ReadBytes(mem, last.path).data = last.data
    /\ MInfo(mem, last.path).err = "ok"
    /\ MInfo(mem, last.path).size = Len(last.data)

\* the bytes of 'Hello World!', 'h', 'w' and 'hello world!'
HelloWorld == <<72, 101, 108, 108, 111, 32, 87, 111, 114, 108, 100, 33>>
LowerH == <<104>>
LowerW == <<119>>
LowerHelloWorld == <<104, 101, 108, 108, 111, 32, 119, 111, 114, 108, 100, 33>>

\* open 'rb+', seek(0), write 'h', seek(6), write 'w', seek(0), read
HelloWorldScript ==
  Bind(MOpen(WriteBytes(MemoryInit, <<"a">>, HelloWorld).m, <<"a">>, "rb+"), LAMBDA o :
    Bind(MSeek(o.m, o.ret, 0, 0), LAMBDA s1 :
      Bind(MWrite(s1.m, o.ret, LowerH), LAMBDA w1 :
        Bind(MSeek(w1.m, o.ret, 6, 0), LAMBDA s2 :
          Bind(MWrite(s2.m, o.ret, LowerW), LAMBDA w2 :
            Bind(MSeek(w2.m, o.ret, 0, 0), LAMBDA s3 :
              Bind(MClose(s3.m, o.ret), LAMBDA c :
                [data |-> MRead(s3.m, o.ret, -1).data,
                 size |-> MInfo(c.m, <<"a">>).size,
                 content |-> ReadBytes(c.m, <<"a">>).data])))))))

\* what a write of data at cursor k must leave in a buffer holding old
Overwritten(old, k, data) ==
  LET n == IF data = <<>> THEN Len(old) ELSE Max(Len(old), k + Len(data))
  IN [i \in 1..n |->
        IF i > k /\ i <= k + Len(data) THEN data[i - k]
        ELSE IF i <= Len(old) THEN old[i]
        ELSE 0]

\* C2: a write of data at cursor k through an open handle replaces the bytes
\* [k, k+len(data)) and leaves every other byte as it was; a seek(0) and read
\* afterwards return the updated content.  'Hello World!' becomes
\* 'hello world!' by seek(0), write 'h', seek(6), write 'w'.
C2_WriteInPlace ==
  /\ HelloWorldScript = [data |-> LowerHelloWorld, size |-> 12,
                         content |-> LowerHelloWorld]
  /\ [][(last'.op = "write" /\ last'.err = "ok") =>
          LET fd == last'.fd
              want == Overwritten(mem.fds[fd].stream, mem.fds[fd].pos, last'.data)
          IN /\ mem'.fds[fd].stream = want
             /\ MRead(MSeek(mem', fd, 0, 0).m, fd, -1).data = want
             /\ MRead(MSeek(mem', fd, 0, 0).m, fd, -1).err = "ok"]_vars

\* a one-byte write in the middle of a three-byte buffer has happened
C2_Witness ==
  /\ last.op = "write" /\ last.err = "ok" /\ last.data = <<1>>
  /\ last.fd \in DOMAIN mem.fds
  /\ mem.fds[last.fd].stream = <<0, 1, 0>>
  /\ mem.fds[last.fd].pos = 2

----------------------------------------------------------------------------
(* Claims on the model of the derived operations (SpecDerived) *)

\* C3: after rename(src, dst) of an existing file returns, info(src) fails
\* with FileNotFoundError and read_bytes(dst) returns the content src held
\* immediately before the call.
C3_Rename ==
  [][(last'.op = "rename" /\ last'.err = "ok") =>
       /\ MInfo(mem', last'.path).err = "FileNotFoundError"
       /\ Errno(MInfo(mem', last'.path).err) = "ENOENT"
       /\ ReadBytes(mem, last'.path).err = "ok"
       /\ ReadBytes(mem', last'.dst).err = "ok"
       /\ ReadBytes(mem', last'.dst).data = ReadBytes(mem, last'.path).data]_vars

\* a rename of a file that holds a byte has returned
C3_Witness ==
  /\ last.op = "rename" /\ last.err = "ok"
  /\ last.dst \in DOMAIN mem.inodes
  /\ Inode(mem, last.dst).content = <<1>>
  /\ last.path \notin DOMAIN mem.inodes

DerivedOps == {"cat", "put", "ufs_copy", "copyfile"}

\* C8: whether cat, put, UFS.copy or copyfile returns or raises, no handle it
\* opened stays in the handle table of a store.
C8_OpenPairsWithClose ==
  [][last'.op \in DerivedOps =>
       /\ DOMAIN mem'.fds \subseteq DOMAIN mem.fds
       /\ DOMAIN upper'.fds \subseteq DOMAIN upper.fds]_vars

----------------------------------------------------------------------------
(* Claims on the namespace model (SpecTree) *)

\* C4: for every path p other than the root, the name of p is in the listing
\* of the parent of p if and only if info(p) succeeds; every name a listing
\* holds is the name of a path info succeeds on.
C4_ListingCoherence ==
  /\ \A p \in (Paths \cup DOMAIN mem.inodes) \ {<<>>} :
       (/\ MLs(mem, pathparent(p)).err = "ok"
        /\ pathname(p) \in MLs(mem, pathparent(p)).names)
       <=> MInfo(mem, p).err = "ok"
  /\ \A d \in DOMAIN mem.dirs : \A n \in MLs(mem, d).names :
       MInfo(mem, Append(d, n)).err = "ok"

\* a file two levels down exists, a name of the root has gone, and a handle is
\* still open on a path that was unlinked
C4_Witness ==
  /\ <<"a", "a">> \in DOMAIN mem.inodes
  /\ Inode(mem, <<"a", "a">>).type = "file"
  /\ <<"b">> \notin DOMAIN mem.inodes
  /\ \E fd \in DOMAIN mem.fds : mem.fds[fd].path = <<"b">>

\* C5: rmdir on a directory that is not empty fails with the error the
\* adapters report as ENOTEMPTY and leaves the store as it was.
C5_RmdirNotEmpty ==
  \A p \in DOMAIN mem.dirs :
    mem.dirs[p] # {} =>
      /\ MRmdir(mem, p).err # "ok"
      /\ MRmdir(mem, p).m = mem
      /\ Errno(MRmdir(mem, p).err) = "ENOTEMPTY"

----------------------------------------------------------------------------
(* Claims on the handle model (SpecMem) *)

HandleOps == {"seek", "read", "write", "truncate", "close"}

\* a handle value the store handed out and has closed
Closed(m, fd) == fd >= FirstFd /\ fd < m.cfd /\ fd \notin DOMAIN m.fds

\* C6: a close removes the entry of the handle, and every later seek, read,
\* write, truncate or close on that handle value fails with KeyError, an
\* error of no named kind, and changes nothing in the store.
C6_ClosedHandle ==
  [][/\ (last'.op = "close" /\ last'.fd \in DOMAIN mem.fds) =>
          last'.fd \notin DOMAIN mem'.fds
     /\ (last'.op \in HandleOps /\ Closed(mem, last'.fd)) =>
          /\ last'.err = "KeyError"
          /\ Errno(last'.err) = "EROFS"
          /\ mem' = mem]_vars

\* a write on a closed handle has failed while another handle is open
C6_Witness ==
  /\ last.op = "write" /\ last.err = "KeyError"
  /\ Closed(mem, last.fd)
  /\ DOMAIN mem.fds # {}
  /\ <<"a">> \in DOMAIN mem.inodes

\* the handle is the only one open on its path
OnlyHandle(m, fd) ==
  \A other \in DOMAIN m.fds : other # fd => m.fds[other].path # m.fds[fd].path

\* C7: once every other handle of a file is closed, a read, seek or close
\* through a handle that was never written or truncated through leaves the
\* content and the size of every file as the closed handles left them.
C7_DistinctHandles ==
  [][(/\ last'.op \in {"read", "seek", "close"}
      /\ last'.fd \in DOMAIN mem.fds
      /\ last'.fd \notin dirty
      /\ OnlyHandle(mem, last'.fd)) =>
       \A p \in DOMAIN mem.inodes :
         /\ p \in DOMAIN mem'.inodes
         /\ Inode(mem', p).content = Inode(mem, p).content
         /\ Inode(mem', p).size = Inode(mem, p).size]_vars

----------------------------------------------------------------------------
(* Claims on the overlay model (SpecOv) *)

\* the content, size and type of every path of a store
Files(m) == [p \in DOMAIN m.inodes |-> Inode(m, p)]

\* C9: no operation issued through the overlay changes the content, the size
\* or a listing of lower.
C9_LowerUntouched ==
  [][Files(lower)' = Files(lower) /\ lower'.dirs = lower.dirs]_vars

\* open(path, 'rb') and read(fd, -1) through the overlay
OvReadAll(ov, path) ==
  Bind(OvOpen(ov, path, "rb"), LAMBDA o :
    IF o.err # "ok" THEN [err |-> o.err, data |-> <<>>]
    ELSE Bind(OvRead(o.ov, o.ret, -1), LAMBDA r : [err |-> r.err, data |-> r.data]))

\* the store the overlay is to answer from: upper when the path exists there
Preferred(path) == IF path \in DOMAIN upper.inodes THEN upper ELSE lower

\* C10: info and the content read through the overlay are upper's when the
\* path exists in upper and lower's otherwise; ls is the union of both
\* listings and fails only when the path is a directory in neither store.
C10_ReadsPreferUpper ==
  \A p \in OvPaths \cup DOMAIN upper.inodes \cup DOMAIN lower.inodes :
    /\ OvInfo(Ov, p) = MInfo(Preferred(p), p)
    /\ OvReadAll(Ov, p).err = ReadBytes(Preferred(p), p).err
    /\ OvReadAll(Ov, p).data = ReadBytes(Preferred(p), p).data
    /\ OvReadAll(Ov, p).err = "ok" =>
         OvReadAll(Ov, p).data = Inode(Preferred(p), p).content
    /\ (OvLs(Ov, p).err = "ok") <=> (p \in DOMAIN upper.dirs \/ p \in DOMAIN lower.dirs)
    /\ OvLs(Ov, p).err # "ok" => OvLs(Ov, p).err = "FileNotFoundError"
    /\ OvLs(Ov, p).names = MLs(upper, p).names \cup MLs(lower, p).names

\* a file of lower is masked by a file of upper with other content, and the
\* root lists a name only upper has next to the name both have
C10_Witness ==
  /\ <<"a">> \in DOMAIN lower.inodes /\ <<"a">> \in DOMAIN upper.inodes
  /\ Inode(lower, <<"a">>).type = "file" /\ Inode(upper, <<"a">>).type = "file"
  /\ Inode(lower, <<"a">>).content # Inode(upper, <<"a">>).content
  /\ OvReadAll(Ov, <<"a">>).data = Inode(upper, <<"a">>).content
  /\ OvLs(Ov, <<>>).names = {"a", "b"}
  /\ <<"b">> \notin DOMAIN lower.inodes

\* a file that lower has and upper does not
LowerOnlyFile(p) ==
  /\ p \in DOMAIN lower.inodes
  /\ Inode(lower, p).type = "file"
  /\ p \notin DOMAIN upper.inodes

\* C11: an open in a mode with '+' of a file only lower has copies the file
\* to upper with lower's content and returns a handle of upper; after a write
\* and a close the overlay reads the modified content and lower holds the
\* original.
C11_CopyUp ==
  \A p \in OvPaths, mode \in {"rb+", "ab+"} :
    LowerOnlyFile(p) =>
      Bind(OvOpen(Ov, p, mode), LAMBDA o :
        /\ o.err = "ok"
        /\ o.ov.fds[o.ret].provider = "upper"
        /\ p \in DOMAIN o.ov.upper.inodes
        /\ Inode(o.ov.upper, p).content = Inode(lower, p).content
        /\ \A data \in SeqsUpTo(Byte, OvMaxLen) :
             Bind(OvClose(OvWrite(o.ov, o.ret, data).ov, o.ret), LAMBDA c :
               /\ c.err = "ok"
               /\ OvReadAll(c.ov, p).data
                    = StreamWrite(Inode(lower, p).content,
                                  IF ModeStartsA(mode)
                                  THEN Len(Inode(lower, p).content) ELSE 0,
                                  data)
               /\ Files(c.ov.lower) = Files(lower)))

\* C12: unlink through the overlay of a file only lower has returns without
\* an error and changes neither store; the overlay still reads lower's
\* content.
C12_UnlinkLowerOnly ==
  \A p \in OvPaths :
    LowerOnlyFile(p) =>
      Bind(OvUnlink(Ov, p), LAMBDA u :
        /\ u.err = "ok"
        /\ u.ov.lower = lower /\ u.ov.upper = upper
        /\ OvReadAll(u.ov, p).err = "ok"
        /\ OvReadAll(u.ov, p).data = Inode(lower, p).content)

\* C13: rename through the overlay of a file only lower has, to a free name
\* whose directory upper has, ends with the destination in upper holding the
\* content of the source.
C13_RenameFallsBack ==
  \A src \in OvPaths, dst \in OvPaths :
    (/\ LowerOnlyFile(src)
     /\ dst \notin DOMAIN upper.inodes /\ dst \notin DOMAIN lower.inodes
     /\ pathparent(dst) \in DOMAIN upper.dirs
     /\ pathparent(src) \in DOMAIN upper.dirs) =>
      Bind(OvRename(Ov, src, dst), LAMBDA r :
        /\ r.err = "ok"
        /\ dst \in DOMAIN r.ov.upper.inodes
        /\ Inode(r.ov.upper, dst).content = Inode(lower, src).content)

----------------------------------------------------------------------------
(* Local: the operating system's files behind os.* and the built-in open.  *)
(* A store value has the shape of a Memory store; a handle keeps the inode  *)
(* it was opened on, its mode and the bytes its buffer holds until close.   *)

LocalInit == MemoryInit

IsPrefix(a, b) == Len(a) <= Len(b) /\ SubSeq(b, 1, Len(a)) = a

\* the error of a path lookup: a missing name, or a file where a directory
\* has to be
Lookup(m, path) ==
  IF path \in DOMAIN m.inodes THEN "ok"
  ELSE IF \E k \in 0..(Len(path) - 1) :
            /\ SubSeq(path, 1, k) \in DOMAIN m.inodes
            /\ Inode(m, SubSeq(path, 1, k)).type = "file"
    THEN "NotADirectoryError"
  ELSE "FileNotFoundError"

\* an inode number neither a path nor an open handle refers to
LNewId(m) ==
  CHOOSE i \in 0..(Cardinality(DOMAIN m.heap) + Cardinality(DOMAIN m.fds)) :
    i \notin DOMAIN m.heap /\ \A fd \in DOMAIN m.fds : m.fds[fd].ino # i

\* Local.ls: os.listdir
LLs(m, path) ==
  IF Lookup(m, path) # "ok" THEN [err |-> Lookup(m, path), names |-> {}]
  ELSE IF path \notin DOMAIN m.dirs THEN [err |-> "NotADirectoryError", names |-> {}]
  ELSE [err |-> "ok", names |-> m.dirs[path]]

\* Local.info: os.stat
LInfo(m, path) ==
  IF Lookup(m, path) # "ok"
  THEN [err |-> Lookup(m, path), type |-> "none", size |-> NoRet]
  ELSE [err |-> "ok", type |-> Inode(m, path).type, size |-> Inode(m, path).size]

\* a new file at path
LCreate(m, path) ==
  [m EXCEPT !.inodes = Put(@, path, LNewId(m)),
            !.heap = Put(@, LNewId(m), [type |-> "file", size |-> 0, content |-> <<>>]),
            !.dirs = [@ EXCEPT ![pathparent(path)] = @ \cup {pathname(path)}]]

\* Local.open with mode 'rb', 'wb' or 'ab': the handle number is taken before
\* the built-in open runs; 'wb' empties the file at once
LOpen(m, path, mode) ==
  Bind([m EXCEPT !.cfd = @ + 1], LAMBDA m0 :
    IF path \in DOMAIN m.inodes /\ Inode(m, path).type = "directory"
      THEN Raise(m0, "IsADirectoryError")
    ELSE IF path \in DOMAIN m.inodes
      THEN Ok([m0 EXCEPT
                 !.heap[m.inodes[path]] =
                    IF mode = "wb" THEN [@ EXCEPT !.size = 0, !.content = <<>>] ELSE @,
                 !.fds = Put(@, m.cfd, [ino |-> m.inodes[path], mode |-> mode,
                                        buf |-> <<>>, pos |-> 0])],
              m.cfd, <<>>)
    ELSE IF mode = "rb" THEN Raise(m0, Lookup(m, path))
    ELSE IF Lookup(m, pathparent(path)) # "ok" THEN Raise(m0, Lookup(m, pathparent(path)))
    ELSE IF pathparent(path) \notin DOMAIN m.dirs THEN Raise(m0, "NotADirectoryError")
    ELSE Ok([LCreate(m0, path) EXCEPT
               !.fds = Put(@, m.cfd, [ino |-> LNewId(m0), mode |-> mode, buf |-> <<>>,
                                        pos |-> 0])],
            m.cfd, <<>>))

\* Local.seek from the start of the file; the models seek only handles
\* opened 'rb'
LSeek(m, fd, pos) ==
  IF fd \notin DOMAIN m.fds THEN Raise(m, "KeyError")
  ELSE IF pos < 0 THEN Raise(m, "OSError(EINVAL)")
  ELSE Ok([m EXCEPT !.fds[fd].pos = pos], pos, <<>>)

\* Local.read on a handle opened 'rb': the bytes of the inode from the cursor
LRead(m, fd, amnt) ==
  IF fd \notin DOMAIN m.fds THEN Raise(m, "KeyError")
  ELSE IF m.fds[fd].mode # "rb" THEN Raise(m, "UnsupportedOperation")
  ELSE Bind(IF m.fds[fd].ino \in DOMAIN m.heap
            THEN StreamRead(m.heap[m.fds[fd].ino].content, m.fds[fd].pos, amnt)
            ELSE <<>>, LAMBDA buf :
         Ok([m EXCEPT !.fds[fd].pos = @ + Len(buf)], NoRet, buf))

\* Local.write: the bytes stay in the buffer of the file object
LWrite(m, fd, data) ==
  IF fd \notin DOMAIN m.fds THEN Raise(m, "KeyError")
  ELSE IF m.fds[fd].mode = "rb" THEN Raise(m, "UnsupportedOperation")
  ELSE Ok([m EXCEPT !.fds[fd].buf = @ \o data], Len(data), <<>>)

\* Local.truncate calls a method the file object does not have
LTruncate(m, fd, length) ==
  IF fd \notin DOMAIN m.fds THEN Raise(m, "KeyError")
  ELSE Raise(m, "AttributeError")

\* Local.close: the buffer reaches the inode, at its end for 'ab' and from
\* offset 0 for 'wb'; an inode no path refers to any more is dropped
LClose(m, fd) ==
  IF fd \notin DOMAIN m.fds THEN Raise(m, "KeyError")
  ELSE Bind(m.fds[fd], LAMBDA d :
         Bind([m EXCEPT !.fds = Del(@, fd)], LAMBDA m1 :
           IF d.ino \notin DOMAIN m.heap \/ d.mode = "rb" THEN Ok(m1, NoRet, <<>>)
           ELSE Bind(StreamWrite(m.heap[d.ino].content,
                                 IF d.mode = "ab" THEN Len(m.heap[d.ino].content) ELSE 0,
                                 d.buf), LAMBDA c :
                  Ok([m1 EXCEPT !.heap[d.ino].content = c, !.heap[d.ino].size = Len(c)],
                     NoRet, <<>>))))

\* Local.unlink: os.unlink
LUnlink(m, path) ==
  IF Lookup(m, path) # "ok" THEN Raise(m, Lookup(m, path))
  ELSE IF Inode(m, path).type = "directory" THEN Raise(m, "IsADirectoryError")
  ELSE Ok(Collect([m EXCEPT !.dirs[pathparent(path)] = @ \ {pathname(path)},
                            !.inodes = Del(@, path)]),
          NoRet, <<>>)

\* Local.mkdir: os.mkdir
LMkdir(m, path) ==
  IF path \in DOMAIN m.inodes THEN Raise(m, "FileExistsError")
  ELSE IF Lookup(m, pathparent(path)) # "ok" THEN Raise(m, Lookup(m, pathparent(path)))
  ELSE IF pathparent(path) \notin DOMAIN m.dirs THEN Raise(m, "NotADirectoryError")
  ELSE Ok([m EXCEPT
             !.inodes = Put(@, path, LNewId(m)),
             !.heap = Put(@, LNewId(m), RootInode),
             !.dirs = [x \in (DOMAIN @) \cup {path} |->
                         IF x = path THEN {}
                         ELSE IF x = pathparent(path) THEN @[x] \cup {pathname(path)}
                         ELSE @[x]]],
          NoRet, <<>>)

\* Local.rmdir: os.rmdir
LRmdir(m, path) ==
  IF Lookup(m, path) # "ok" THEN Raise(m, Lookup(m, path))
  ELSE IF path \notin DOMAIN m.dirs THEN Raise(m, "NotADirectoryError")
  ELSE IF path = <<>> THEN Raise(m, "OSError(EBUSY)")
  ELSE IF m.dirs[path] # {} THEN Raise(m, "OSError(ENOTEMPTY)")
  ELSE Ok(Collect([m EXCEPT
                     !.dirs = [x \in (DOMAIN @) \ {path} |->
                                 IF x = pathparent(path) THEN @[x] \ {pathname(path)}
                                 ELSE @[x]],
                     !.inodes = Del(@, path)]),
          NoRet, <<>>)

\* where shutil.copy writes: inside dst when dst is a directory
CopyTarget(m, src, dst) ==
  IF dst \in DOMAIN m.dirs /\ src # <<>> THEN dst \o <<pathname(src)>> ELSE dst

\* Local.copy: shutil.copy
LCopy(m, src, dst) ==
  Bind(CopyTarget(m, src, dst), LAMBDA t :
    IF src \in DOMAIN m.inodes /\ t \in DOMAIN m.inodes /\ m.inodes[src] = m.inodes[t]
      THEN Raise(m, "SameFileError")
    ELSE IF Lookup(m, src) # "ok" THEN Raise(m, Lookup(m, src))
    ELSE IF Inode(m, src).type = "directory" THEN Raise(m, "IsADirectoryError")
    ELSE IF t \in DOMAIN m.inodes /\ Inode(m, t).type = "directory"
      THEN Raise(m, "IsADirectoryError")
    ELSE IF t \in DOMAIN m.inodes
      THEN Ok([m EXCEPT !.heap[m.inodes[t]] = Inode(m, src)], NoRet, <<>>)
    ELSE IF Lookup(m, pathparent(t)) # "ok" THEN Raise(m, Lookup(m, pathparent(t)))
    ELSE IF pathparent(t) \notin DOMAIN m.dirs THEN Raise(m, "NotADirectoryError")
    ELSE Ok([LCreate(m, t) EXCEPT !.heap[LNewId(m)] = Inode(m, src)], NoRet, <<>>))

\* the path q below src, moved below dst
Rebase(q, src, dst) == dst \o SubSeq(q, Len(src) + 1, Len(q))

\* the names os.rename moves: src and everything below it
Moved(m, src) == {q \in DOMAIN m.inodes : IsPrefix(src, q)}

\* src and its subtree taken out and put back at dst
MoveTree(m, src, dst) ==
  Bind(Moved(m, src), LAMBDA mv :
    Bind({q \in DOMAIN m.inodes : ~ IsPrefix(dst, q)} \ mv, LAMBDA keep :
      Bind({Rebase(q, src, dst) : q \in mv}, LAMBDA new :
        Collect([m EXCEPT
          !.inodes = [q \in keep \cup new |->
                        IF q \in new
                        THEN m.inodes[CHOOSE o \in mv : Rebase(o, src, dst) = q]
                        ELSE m.inodes[q]],
          !.dirs = [q \in (keep \cup new) \cap
                          ({x \in keep : x \in DOMAIN m.dirs}
                             \cup {Rebase(o, src, dst) : o \in mv \cap DOMAIN m.dirs}) |->
                      IF q \in new
                      THEN m.dirs[CHOOSE o \in mv : Rebase(o, src, dst) = q]
                      ELSE (m.dirs[q] \ (IF q = pathparent(src) THEN {pathname(src)} ELSE {}))
                             \cup (IF q = pathparent(dst) THEN {pathname(dst)} ELSE {})]]))))

\* Local.rename: os.rename
LRename(m, src, dst) ==
  IF Lookup(m, src) # "ok" THEN Raise(m, Lookup(m, src))
  ELSE IF src = dst THEN Ok(m, NoRet, <<>>)
  ELSE IF src = <<>> THEN Raise(m, "OSError(EINVAL)")
  ELSE IF dst = <<>>
    THEN Raise(m, IF src \in DOMAIN m.dirs THEN "OSError(ENOTEMPTY)" ELSE "IsADirectoryError")
  ELSE IF src \in DOMAIN m.dirs /\ IsPrefix(src, dst) THEN Raise(m, "OSError(EINVAL)")
  ELSE IF Lookup(m, pathparent(dst)) # "ok" THEN Raise(m, Lookup(m, pathparent(dst)))
  ELSE IF pathparent(dst) \notin DOMAIN m.dirs THEN Raise(m, "NotADirectoryError")
  ELSE IF src \notin DOMAIN m.dirs /\ dst \in DOMAIN m.dirs THEN Raise(m, "IsADirectoryError")
  ELSE IF src \in DOMAIN m.dirs /\ dst \in DOMAIN m.inodes /\ dst \notin DOMAIN m.dirs
    THEN Raise(m, "NotADirectoryError")
  ELSE IF src \in DOMAIN m.dirs /\ dst \in DOMAIN m.dirs /\ m.dirs[dst] # {}
    THEN Raise(m, "OSError(ENOTEMPTY)")
  ELSE Ok(MoveTree(m, src, dst), NoRet, <<>>)

----------------------------------------------------------------------------
(* TTLCache and DirCache over a Local store *)

\* TTLCacheStore.__getitem__ returns the item: it is there and the clock is
\* not past its ttl
Live(c, key, t) == key \in DOMAIN c /\ ~ (t > c[key].ttl)

\* TTLCache.__call__: the item of a live entry, else the resolved item, which
\* is stored (a raised error as well) with ttl = time.time() + _ttl
TTLCall(c, key, t, ttl, resolved) ==
  IF Live(c, key, t) THEN [cache |-> c, item |-> c[key].val]
  ELSE [cache |-> Put(c, key, [val |-> resolved, ttl |-> t + ttl]), item |-> resolved]

\* DirCache.__init__
DirCacheInit(ttl) ==
  [ inner |-> LocalInit,
    ls    |-> [x \in {} |-> 0],
    info  |-> [x \in {} |-> 0],
    fds   |-> [x \in {} |-> 0],
    ttl   |-> ttl ]

DcOut(d, r) == [d |-> [d EXCEPT !.inner = r.m], err |-> r.err, ret |-> r.ret]

\* DirCache.ls
DcLs(d, path, t) ==
  Bind(TTLCall(d.ls, path, t, d.ttl, LLs(d.inner, path)), LAMBDA r :
    [d |-> [d EXCEPT !.ls = r.cache], item |-> r.item])

\* DirCache.info
DcInfo(d, path, t) ==
  Bind(TTLCall(d.info, path, t, d.ttl, LInfo(d.inner, path)), LAMBDA r :
    [d |-> [d EXCEPT !.info = r.cache], item |-> r.item])

\* DirCache.open
DcOpen(d, path, mode) ==
  Bind([d EXCEPT !.info = Del(@, path), !.ls = Del(@, pathparent(path))], LAMBDA d1 :
    Bind(LOpen(d1.inner, path, mode), LAMBDA r :
      IF r.err # "ok" THEN DcOut(d1, r)
      ELSE DcOut([d1 EXCEPT !.fds = Put(@, r.ret, path)], r)))

\* DirCache.write
DcWrite(d, fd, data) == DcOut(d, LWrite(d.inner, fd, data))

\* DirCache.truncate
DcTruncate(d, fd, length) == DcOut(d, LTruncate(d.inner, fd, length))

\* DirCache.close
DcClose(d, fd) ==
  IF fd \notin DOMAIN d.fds THEN DcOut(d, Raise(d.inner, "KeyError"))
  ELSE Bind([d EXCEPT !.fds = Del(@, fd),
                      !.info = Del(@, d.fds[fd]),
                      !.ls = Del(@, pathparent(d.fds[fd]))], LAMBDA d1 :
         DcOut(d1, LClose(d1.inner, fd)))

\* DirCache.unlink
DcUnlink(d, path) ==
  Bind([d EXCEPT !.info = Del(@, path), !.ls = Del(@, pathparent(path))], LAMBDA d1 :
    DcOut(d1, LUnlink(d1.inner, path)))

\* DirCache.mkdir
DcMkdir(d, path) ==
  Bind([d EXCEPT !.info = Del(@, path),
                 !.ls = Del(Del(@, path), pathparent(path))], LAMBDA d1 :
    DcOut(d1, LMkdir(d1.inner, path)))

\* DirCache.rmdir
DcRmdir(d, path) ==
  Bind([d EXCEPT !.info = Del(@, path),
                 !.ls = Del(Del(@, path), pathparent(path))], LAMBDA d1 :
    DcOut(d1, LRmdir(d1.inner, path)))

\* DirCache.copy: nothing is discarded when the inner copy raises
DcCopy(d, src, dst) ==
  Bind(LCopy(d.inner, src, dst), LAMBDA r :
    IF r.err # "ok" THEN DcOut(d, r)
    ELSE DcOut([d EXCEPT !.info = Del(@, dst), !.ls = Del(@, pathparent(dst))], r))

\* DirCache.rename: nothing is discarded when the inner rename raises
DcRename(d, src, dst) ==
  Bind(LRename(d.inner, src, dst), LAMBDA r :
    IF r.err # "ok" THEN DcOut(d, r)
    ELSE DcOut([d EXCEPT !.info = Del(Del(@, src), dst),
                         !.ls = Del(Del(@, pathparent(src)), pathparent(dst))], r))

----------------------------------------------------------------------------
(* The model of a DirCache: one instance over a Local store, and the clock *)

\* the stores and the overlay of the other models stay as constructed
IdleStores ==
  /\ mem = MemoryInit
  /\ lower = MemoryInit
  /\ upper = MemoryInit
  /\ ofds = [x \in {} |-> 0]
  /\ ocfd = 0
  /\ last = NoCall
  /\ dirty = {}
  /\ rec = FALSE

storeVars == <<mem, lower, upper, ofds, ocfd, last, dirty, rec>>

InitDC == IdleStores /\ dc = DirCacheInit(DcTtl) /\ now = 0 /\ wc = <<>> /\ br = <<>> /\ mp = <<>> /\ ax = <<>>

InitDC0 == IdleStores /\ dc = DirCacheInit(0) /\ now = 0 /\ wc = <<>> /\ br = <<>> /\ mp = <<>> /\ ax = <<>>

DcStep(r) ==
  /\ dc' = r.d
  /\ UNCHANGED <<now, storeVars, wc, br, mp, ax>>

\* time.time() moves on
Tick ==
  /\ now < DcMaxTime
  /\ now' = now + 1
  /\ UNCHANGED <<dc, storeVars, wc, br, mp, ax>>

\* the handles Local hands out within the bound, and one it never does
DcFds == FirstFd..(FirstFd + DcMaxFd)

\* the names of the store stay within the paths of the model
InPaths(r) ==
  /\ DOMAIN r.d.inner.inodes \subseteq Paths
  /\ Cardinality(DOMAIN r.d.inner.inodes) <= DcMaxNodes

\* the paths the mutating operations are called with
DcNames == Paths \ {<<>>}

\* the modes open is called with
DcModes == {"wb"}

\* the bytes a write is called with
DcDatas == {s \in SeqsUpTo(Byte, DcMaxLen) : s # <<>> /\ \A i \in 1..Len(s) : s[i] = 0}

\* the caches hold an entry for the key already, or have room for one more
CacheRoom(c, key) ==
  \/ key \in DOMAIN c
  \/ Cardinality(DOMAIN dc.ls) + Cardinality(DOMAIN dc.info) < DcMaxCached

DLs(path) ==
  /\ CacheRoom(dc.ls, path)
  /\ DcStep(DcLs(dc, path, now))

DInfo(path) ==
  /\ CacheRoom(dc.info, path)
  /\ DcStep(DcInfo(dc, path, now))

DOpen(path, mode) ==
  /\ dc.inner.cfd < FirstFd + DcMaxFd
  /\ Cardinality(DOMAIN dc.inner.fds) < DcMaxOpen
  /\ InPaths(DcOpen(dc, path, mode))
  /\ DcStep(DcOpen(dc, path, mode))

DWrite(fd, data) ==
  /\ fd \in DOMAIN dc.inner.fds => Len(dc.inner.fds[fd].buf) + Len(data) <= DcMaxLen
  /\ DcStep(DcWrite(dc, fd, data))

DTruncate(fd, length) == DcStep(DcTruncate(dc, fd, length))

DClose(fd) == DcStep(DcClose(dc, fd))

DUnlink(path) == DcStep(DcUnlink(dc, path))

DMkdir(path) ==
  /\ InPaths(DcMkdir(dc, path))
  /\ DcStep(DcMkdir(dc, path))

DRmdir(path) == DcStep(DcRmdir(dc, path))

DCopy(src, dst) ==
  /\ InPaths(DcCopy(dc, src, dst))
  /\ DcStep(DcCopy(dc, src, dst))

DRename(src, dst) ==
  /\ InPaths(DcRename(dc, src, dst))
  /\ DcStep(DcRename(dc, src, dst))

NextDC ==
  \/ Tick
  \/ \E path \in Paths : DLs(path)
  \/ \E path \in Paths : DInfo(path)
  \/ \E path \in DcNames, mode \in DcModes : DOpen(path, mode)
  \/ \E fd \in DcFds, data \in DcDatas : DWrite(fd, data)
  \/ \E fd \in DcFds : DTruncate(fd, 0)
  \/ \E fd \in DcFds : DClose(fd)
  \/ \E path \in DcNames : DUnlink(path)
  \/ \E path \in DcNames : DMkdir(path)
  \/ \E path \in DcNames : DRmdir(path)
  \/ \E src \in DcNames, dst \in DcNames : DCopy(src, dst)
  \/ \E src \in DcNames, dst \in DcNames : DRename(src, dst)

SpecDC == InitDC /\ [][NextDC]_vars

SpecDC0 == InitDC0 /\ [][NextDC]_vars

----------------------------------------------------------------------------
(* Claims on the DirCache models (SpecDC, SpecDC0) *)

\* two answers agree: both raise, or both return and return the same
Same(x, y) ==
  /\ (x.err = "ok") = (y.err = "ok")
  /\ x.err = "ok" => x = y

\* what ls and info through the instance answer now is what the Local store
\* under it answers now
Coherent ==
  \A path \in Paths :
    /\ Same(DcLs(dc, path, now).item, LLs(dc.inner, path))
    /\ Same(DcInfo(dc, path, now).item, LInfo(dc.inner, path))

\* C14: with ttl > 0 and every operation made through the one DirCache, ls and
\* info through it never answer with a value or an error that a mutating
\* operation has made untrue: they return a value exactly when the inner
\* store does, and then the same value.
C14_InvalidatesAffected == dc.ttl > 0 => Coherent

\* C15: with ttl = 0 every ls and info through the DirCache answers as the
\* inner store answers at that moment, also when the clock reads the same as
\* at the call before.
C15_TtlZeroPassesThrough ==
  dc.ttl = 0 =>
    \A path \in Paths :
      /\ ~ Live(dc.ls, path, now) \/ Same(dc.ls[path].val, LLs(dc.inner, path))
      /\ ~ Live(dc.info, path, now) \/ Same(dc.info[path].val, LInfo(dc.inner, path))

----------------------------------------------------------------------------
(* Writecache and RWCache: a Local store behind a Memory store as scratch *)

\* a wrapper around the store _ufs with the scratch store _cache
CacheInit ==
  [ ufs   |-> LocalInit,
    cache |-> MemoryInit,
    cfd   |-> FirstFd,
    fds   |-> [x \in {} |-> 0] ]

\* SafePurePosixPath(f"/{fd}"): the scratch file of a handle
Scratch(fd) == <<ToString(fd)>>

WOk(w, ret) == [w |-> w, err |-> "ok", ret |-> ret]
WRaise(w, e) == [w |-> w, err |-> e, ret |-> NoRet]

\* the read loop of Writecache.open: _ufs.read until nothing comes,
\* _cache.write of every chunk
RECURSIVE FillLoop(_, _, _)
FillLoop(w, fr, fw) ==
  Bind(LRead(w.ufs, fr, CHUNK_SIZE), LAMBDA r :
    IF r.err # "ok" THEN WRaise([w EXCEPT !.ufs = r.m], r.err)
    ELSE IF r.data = <<>> THEN WOk([w EXCEPT !.ufs = r.m], NoRet)
    ELSE Bind(MWrite(w.cache, fw, r.data), LAMBDA x :
           IF x.err # "ok" THEN WRaise([w EXCEPT !.ufs = r.m, !.cache = x.m], x.err)
           ELSE FillLoop([w EXCEPT !.ufs = r.m, !.cache = x.m], fr, fw)))

\* the read loop of Writecache.close and of put(cat()): _cache.read until
\* nothing comes, _ufs.write of every chunk
RECURSIVE FlushLoop(_, _, _)
FlushLoop(w, fh, fw) ==
  Bind(MRead(w.cache, fh, CHUNK_SIZE), LAMBDA r :
    IF r.err # "ok" THEN WRaise([w EXCEPT !.cache = r.m], r.err)
    ELSE IF r.data = <<>> THEN WOk([w EXCEPT !.cache = r.m], NoRet)
    ELSE Bind(LWrite(w.ufs, fw, r.data), LAMBDA x :
           IF x.err # "ok" THEN WRaise([w EXCEPT !.cache = r.m, !.ufs = x.m], x.err)
           ELSE FlushLoop([w EXCEPT !.cache = r.m, !.ufs = x.m], fh, fw)))

\* Writecache.open, a read mode without '+': the handle is one of _ufs
WcOpenRead(w, path, mode) ==
  Bind(LOpen(w.ufs, path, mode), LAMBDA o :
    IF o.err # "ok" THEN WRaise([w EXCEPT !.ufs = o.m], o.err)
    ELSE WOk([w EXCEPT !.ufs = o.m, !.cfd = @ + 1,
                       !.fds = Put(@, w.cfd, [on |-> "ufs", fh |-> o.ret, path |-> path])],
             w.cfd))

\* Writecache.open, an update or append mode: the file is copied to scratch
WcOpenCopy(w, path, mode) ==
  Bind(LOpen(w.ufs, path, "rb"), LAMBDA o :
    IF o.err # "ok" THEN WRaise([w EXCEPT !.ufs = o.m], o.err) ELSE
    Bind(MOpen(w.cache, Scratch(w.cfd), "wb"), LAMBDA c :
      Bind([w EXCEPT !.ufs = o.m, !.cache = c.m, !.cfd = @ + 1], LAMBDA w1 :
        IF c.err # "ok" THEN WRaise(w1, c.err) ELSE
        Bind(FillLoop(w1, o.ret, c.ret), LAMBDA f :
          IF f.err # "ok" THEN f ELSE
          Bind(LClose(f.w.ufs, o.ret), LAMBDA x :
            IF x.err # "ok" THEN WRaise([f.w EXCEPT !.ufs = x.m], x.err) ELSE
            Bind(IF ModeStartsR(mode) THEN MSeek(f.w.cache, c.ret, 0, 0)
                 ELSE Ok(f.w.cache, NoRet, <<>>), LAMBDA k :
              WOk([f.w EXCEPT !.ufs = x.m, !.cache = k.m,
                              !.fds = Put(@, w.cfd, [on |-> "cache", fh |-> c.ret,
                                                     path |-> path])],
                  w.cfd)))))))

\* Writecache.open, a write mode: an empty scratch file
WcOpenWrite(w, path) ==
  Bind(MOpen(w.cache, Scratch(w.cfd), "wb"), LAMBDA c :
    IF c.err # "ok" THEN WRaise([w EXCEPT !.cache = c.m, !.cfd = @ + 1], c.err)
    ELSE WOk([w EXCEPT !.cache = c.m, !.cfd = @ + 1,
                       !.fds = Put(@, w.cfd, [on |-> "cache", fh |-> c.ret, path |-> path])],
             w.cfd))

\* Writecache.open
WcOpen(w, path, mode) ==
  IF ModeStartsR(mode) /\ ~ ModeHasPlus(mode) THEN WcOpenRead(w, path, mode)
  ELSE IF ModeStartsR(mode) \/ ModeStartsA(mode) THEN WcOpenCopy(w, path, mode)
  ELSE WcOpenWrite(w, path)

\* the result of a call forwarded to the store the handle is on
WcOut(w, on, r) ==
  IF on = "cache" THEN [w |-> [w EXCEPT !.cache = r.m], err |-> r.err, ret |-> r.ret]
  ELSE [w |-> [w EXCEPT !.ufs = r.m], err |-> r.err, ret |-> r.ret]

\* Writecache.seek
WcSeek(w, fd, pos) ==
  IF fd \notin DOMAIN w.fds THEN WRaise(w, "KeyError")
  ELSE IF w.fds[fd].on = "cache"
    THEN WcOut(w, "cache", MSeek(w.cache, w.fds[fd].fh, pos, 0))
  ELSE WcOut(w, "ufs", LSeek(w.ufs, w.fds[fd].fh, pos))

\* Writecache.write
WcWrite(w, fd, data) ==
  IF fd \notin DOMAIN w.fds THEN WRaise(w, "KeyError")
  ELSE IF w.fds[fd].on = "cache"
    THEN WcOut(w, "cache", MWrite(w.cache, w.fds[fd].fh, data))
  ELSE WcOut(w, "ufs", LWrite(w.ufs, w.fds[fd].fh, data))

\* Writecache.truncate
WcTruncate(w, fd, length) ==
  IF fd \notin DOMAIN w.fds THEN WRaise(w, "KeyError")
  ELSE IF w.fds[fd].on = "cache"
    THEN WcOut(w, "cache", MTruncate(w.cache, w.fds[fd].fh, length))
  ELSE WcOut(w, "ufs", LTruncate(w.ufs, w.fds[fd].fh, length))

\* Writecache.close of a handle on scratch: info, open of the file in _ufs,
\* seek, the copy loop, close and unlink of the scratch file, close in _ufs;
\* no step is guarded, the first that raises ends the call
WcFlush(w, fd, h) ==
  IF MInfo(w.cache, Scratch(fd)).err # "ok"
    THEN WRaise(w, MInfo(w.cache, Scratch(fd)).err) ELSE
  Bind(LOpen(w.ufs, h.path, "wb"), LAMBDA o :
    IF o.err # "ok" THEN WRaise([w EXCEPT !.ufs = o.m], o.err) ELSE
    Bind(MSeek(w.cache, h.fh, 0, 0), LAMBDA k :
      IF k.err # "ok" THEN WRaise([w EXCEPT !.ufs = o.m, !.cache = k.m], k.err) ELSE
      Bind(FlushLoop([w EXCEPT !.ufs = o.m, !.cache = k.m], h.fh, o.ret), LAMBDA f :
        IF f.err # "ok" THEN f ELSE
        Bind(MClose(f.w.cache, h.fh), LAMBDA c :
          IF c.err # "ok" THEN WRaise([f.w EXCEPT !.cache = c.m], c.err) ELSE
          Bind(MUnlink(c.m, Scratch(fd)), LAMBDA u :
            IF u.err # "ok" THEN WRaise([f.w EXCEPT !.cache = u.m], u.err) ELSE
            WcOut([f.w EXCEPT !.cache = u.m], "ufs", LClose(f.w.ufs, o.ret)))))))

\* Writecache.close
WcClose(w, fd) ==
  IF fd \notin DOMAIN w.fds THEN WRaise(w, "KeyError")
  ELSE Bind([w EXCEPT !.fds = Del(@, fd)], LAMBDA w1 :
         IF w.fds[fd].on = "cache" THEN WcFlush(w1, fd, w.fds[fd])
         ELSE WcOut(w1, "ufs", LClose(w1.ufs, w.fds[fd].fh)))

\* Writecache.mkdir, RWCache.mkdir
WcMkdir(w, path) == WcOut(w, "ufs", LMkdir(w.ufs, path))

\* Writecache.rmdir, RWCache.rmdir
WcRmdir(w, path) == WcOut(w, "ufs", LRmdir(w.ufs, path))

\* Writecache.unlink, RWCache.unlink
WcUnlink(w, path) == WcOut(w, "ufs", LUnlink(w.ufs, path))

----------------------------------------------------------------------------
(* The model of a Writecache: Writecache(Local, Memory()), two names *)

WcPaths == {<<"a">>, <<"a", "a">>}

WcFds == FirstFd..(FirstFd + WcMaxFd - 1)

WcDatas == {s \in SeqsUpTo(Byte, WcMaxLen) : Len(s) = 1}

InitWC == IdleStores /\ dc = <<>> /\ now = 0 /\ wc = CacheInit /\ br = <<>> /\ mp = <<>> /\ ax = <<>>

WcStep(r) ==
  /\ wc' = r.w
  /\ UNCHANGED <<storeVars, dc, now, br, mp, ax>>

\* the wrapper may still hand out a handle
WcCanOpen ==
  /\ wc.cfd < FirstFd + WcMaxFd
  /\ wc.ufs.cfd < FirstFd + WcInnerFd
  /\ Cardinality(DOMAIN wc.fds) < WcMaxOpen

\* the scratch content stays within the bound
WcFits(r) ==
  \A fh \in DOMAIN r.w.cache.fds : Len(r.w.cache.fds[fh].stream) <= WcMaxLen

WOpen(path, mode) ==
  /\ WcCanOpen
  /\ WcStep(WcOpen(wc, path, mode))

WSeek(fd, pos) == WcStep(WcSeek(wc, fd, pos))

WWrite(fd, data) ==
  /\ WcFits(WcWrite(wc, fd, data))
  /\ WcStep(WcWrite(wc, fd, data))

WTruncate(fd, length) == WcStep(WcTruncate(wc, fd, length))

WClose(fd) == WcStep(WcClose(wc, fd))

WMkdir(path) == WcStep(WcMkdir(wc, path))

WRmdir(path) == WcStep(WcRmdir(wc, path))

WUnlink(path) == WcStep(WcUnlink(wc, path))

NextWC ==
  \/ \E path \in WcPaths, mode \in {"rb", "wb", "ab"} : WOpen(path, mode)
  \/ \E fd \in WcFds, pos \in 0..(WcMaxLen - 1) : WSeek(fd, pos)
  \/ \E fd \in WcFds, data \in WcDatas : WWrite(fd, data)
  \/ \E fd \in WcFds, length \in 0..(WcMaxLen - 1) : WTruncate(fd, length)
  \/ \E fd \in WcFds : WClose(fd)
  \/ \E path \in WcPaths : WMkdir(path)
  \/ \E path \in WcPaths : WRmdir(path)
  \/ \E path \in WcPaths : WUnlink(path)

SpecWC == InitWC /\ [][NextWC]_vars

----------------------------------------------------------------------------
(* Claims on the Writecache model (SpecWC) *)

\* the handles of the wrapper that write to scratch
OnScratch == {fd \in DOMAIN wc.fds : wc.fds[fd].on = "cache"}

\* the bytes the scratch file of a handle holds
Held(fd) == wc.cache.fds[wc.fds[fd].fh].stream

C18_ScratchReleased ==
  \A fd \in OnScratch :
    Bind(WcClose(wc, fd), LAMBDA c :
      /\ Scratch(fd) \notin DOMAIN c.w.cache.inodes
      /\ wc.fds[fd].fh \notin DOMAIN c.w.cache.fds)

----------------------------------------------------------------------------
(* RWCache: every handle is one of the scratch store *)

\* _cache.put(scratch, _ufs.cat(path), size_hint = _ufs.info(path)['size']):
\* info first, then the open of scratch, then the generator opens the file
RwFetch(w, fd, path) ==
  IF LInfo(w.ufs, path).err # "ok" THEN WRaise(w, LInfo(w.ufs, path).err) ELSE
  Bind(MOpen(w.cache, Scratch(fd), "wb"), LAMBDA c :
    IF c.err # "ok" THEN WRaise([w EXCEPT !.cache = c.m], c.err) ELSE
    Bind(LOpen(w.ufs, path, "rb"), LAMBDA o :
      IF o.err # "ok" THEN WRaise([w EXCEPT !.cache = c.m, !.ufs = o.m], o.err) ELSE
      Bind(FillLoop([w EXCEPT !.cache = c.m, !.ufs = o.m], o.ret, c.ret), LAMBDA f :
        IF f.err # "ok" THEN f ELSE
        Bind(LClose(f.w.ufs, o.ret), LAMBDA x :
          IF x.err # "ok" THEN WRaise([f.w EXCEPT !.ufs = x.m], x.err)
          ELSE WcOut([f.w EXCEPT !.ufs = x.m], "cache", MClose(f.w.cache, c.ret))))))

\* RWCache.open; the mode is kept with the handle for the claims only,
\* RWCache._fds holds the scratch handle and the path
RwOpen(w, path, mode) ==
  Bind([w EXCEPT !.cfd = @ + 1], LAMBDA w0 :
    Bind(IF ModeStartsR(mode) \/ ModeStartsA(mode) THEN RwFetch(w0, w.cfd, path)
         ELSE WOk(w0, NoRet), LAMBDA f :
      IF f.err # "ok" THEN f ELSE
      Bind(MOpen(f.w.cache, Scratch(w.cfd), mode), LAMBDA o :
        IF o.err # "ok" THEN WRaise([f.w EXCEPT !.cache = o.m], o.err)
        ELSE WOk([f.w EXCEPT !.cache = o.m,
                             !.fds = Put(@, w.cfd, [on |-> "cache", fh |-> o.ret,
                                                    path |-> path, mode |-> mode])],
                 w.cfd))))

\* _ufs.put(path, _cache.cat(scratch)): the open in _ufs, then the generator
\* opens scratch, the copy loop, the generator closes scratch, the close in _ufs
RwPutBack(w, fd, path) ==
  Bind(LOpen(w.ufs, path, "wb"), LAMBDA o :
    IF o.err # "ok" THEN WRaise([w EXCEPT !.ufs = o.m], o.err) ELSE
    Bind(MOpen(w.cache, Scratch(fd), "rb"), LAMBDA c :
      IF c.err # "ok" THEN WRaise([w EXCEPT !.ufs = o.m, !.cache = c.m], c.err) ELSE
      Bind(FlushLoop([w EXCEPT !.ufs = o.m, !.cache = c.m], c.ret, o.ret), LAMBDA f :
        IF f.err # "ok" THEN f ELSE
        Bind(MClose(f.w.cache, c.ret), LAMBDA x :
          IF x.err # "ok" THEN WRaise([f.w EXCEPT !.cache = x.m], x.err)
          ELSE WcOut([f.w EXCEPT !.cache = x.m], "ufs", LClose(f.w.ufs, o.ret))))))

\* RWCache.close: info and close of scratch, the put to _ufs, the unlink of
\* scratch, whatever mode the handle was opened in
RwClose(w, fd) ==
  IF fd \notin DOMAIN w.fds THEN WRaise(w, "KeyError") ELSE
  Bind([w EXCEPT !.fds = Del(@, fd)], LAMBDA w1 :
    IF MInfo(w1.cache, Scratch(fd)).err # "ok"
      THEN WRaise(w1, MInfo(w1.cache, Scratch(fd)).err) ELSE
    Bind(MClose(w1.cache, w.fds[fd].fh), LAMBDA c :
      IF c.err # "ok" THEN WRaise([w1 EXCEPT !.cache = c.m], c.err) ELSE
      Bind(RwPutBack([w1 EXCEPT !.cache = c.m], fd, w.fds[fd].path), LAMBDA b :
        IF b.err # "ok" THEN b
        ELSE WcOut(b.w, "cache", MUnlink(b.w.cache, Scratch(fd))))))

----------------------------------------------------------------------------
(* The model of an RWCache: RWCache(Local, Memory()), two names *)

ROpen(path, mode) ==
  /\ WcCanOpen
  /\ WcStep(RwOpen(wc, path, mode))

RClose(fd) == WcStep(RwClose(wc, fd))

NextRWC ==
  \/ \E path \in WcPaths, mode \in {"rb", "wb", "ab"} : ROpen(path, mode)
  \/ \E fd \in WcFds, pos \in 0..(WcMaxLen - 1) : WSeek(fd, pos)
  \/ \E fd \in WcFds, data \in WcDatas : WWrite(fd, data)
  \/ \E fd \in WcFds, length \in 0..(WcMaxLen - 1) : WTruncate(fd, length)
  \/ \E fd \in WcFds : RClose(fd)
  \/ \E path \in WcPaths : WMkdir(path)
  \/ \E path \in WcPaths : WRmdir(path)
  \/ \E path \in WcPaths : WUnlink(path)

SpecRWC == InitWC /\ [][NextRWC]_vars

----------------------------------------------------------------------------
(* Claims on the RWCache model (SpecRWC) *)

\* C17: closing a handle opened 'rb' leaves every file and every listing of
\* the inner store as it is, and a close of a handle opened for writing that
\* returns normally leaves the inner file with the content of scratch.
C17_PutBackIffWritable ==
  \A fd \in DOMAIN wc.fds :
    Bind(RwClose(wc, fd), LAMBDA c :
      IF wc.fds[fd].mode = "rb"
      THEN Files(c.w.ufs) = Files(wc.ufs) /\ c.w.ufs.dirs = wc.ufs.dirs
      ELSE c.err = "ok" =>
             /\ wc.fds[fd].path \in DOMAIN c.w.ufs.inodes
             /\ Inode(c.w.ufs, wc.fds[fd].path).content = Held(fd))

----------------------------------------------------------------------------
(* The bridges Async, Sync and Process: _forward, both queues, the worker *)

\* the bridges: callers of Async are coroutines of one event loop, callers of
\* Sync and Process are threads
Kinds == {"Async", "Sync", "Process"}

Callers == 1..BrCallers

\* the operations forwarded: ls of the root returns, info of a path that is
\* not there raises
BrOps == {"ls", "info"}

NoResp == [id |-> NoRet, ret |-> <<>>, err |-> <<>>]

\* the worker: func(*args) and the response [i, res, None] or [i, None, err]
Respond(req) ==
  IF req.op = "info"
  THEN [id |-> req.id, ret |-> <<>>, err |-> <<"FileNotFoundError", req.arg>>]
  ELSE [id |-> req.id, ret |-> <<req.op, req.arg>>, err |-> <<>>]

\* Queue.get: a PriorityQueue returns its least item, and the items are lists
\* that start with the task id; a multiprocessing Queue is first in, first out
QPick(kind, q) ==
  IF kind = "Process" THEN 1
  ELSE CHOOSE k \in 1..Len(q) : \A j \in 1..Len(q) : q[k].id <= q[j].id

QDrop(q, k) == SubSeq(q, 1, k - 1) \o SubSeq(q, k + 1, Len(q))

\* a caller that takes every response for its own
Anyones(i, item) == TRUE

\* i == i_
Mine(i, item) == item.id = i

\* __init__ and start: the counter of task ids, two empty queues
BridgeInit(kind) ==
  [ kind    |-> kind,
    taskid  |-> 0,
    send    |-> <<>>,
    recv    |-> <<>>,
    running |-> {},
    getters |-> <<>>,
    loop    |-> {},
    call    |-> [c \in Callers |->
                  [pc |-> "idle", id |-> NoRet, op |-> "none",
                   held |-> NoResp, out |-> NoResp]] ]

\* Queue.put on the queue of responses wakes the first coroutine waiting in get
Wake(b) ==
  IF b.kind = "Async" /\ b.getters # <<>>
  THEN [b EXCEPT !.getters = Tail(@), !.call[Head(b.getters)].pc = "woken"]
  ELSE b

\* callers are coroutines: one runs until it waits for an empty queue or returns
Coop == br.kind = "Async"

\* the worker and a caller that starts or resumes need the event loop
LoopFree == br.loop = {}

\* this caller may take a step
Runs(c) == IF Coop THEN br.loop = {c} ELSE TRUE

InitBridge ==
  /\ IdleStores /\ dc = <<>> /\ now = 0 /\ wc = <<>> /\ mp = <<>> /\ ax = <<>>
  /\ br \in {BridgeInit(kind) : kind \in Kinds}

BrStep(b) ==
  /\ br' = b
  /\ UNCHANGED <<storeVars, dc, now, wc, mp, ax>>

\* _forward: i = next(self._taskid)
TakeId(c, op) ==
  /\ br.call[c].pc = "idle"
  /\ LoopFree
  /\ BrStep([br EXCEPT !.taskid = @ + 1,
                       !.call[c].pc = "send",
                       !.call[c].id = br.taskid,
                       !.call[c].op = op,
                       !.loop = IF Coop THEN {c} ELSE {}])

\* _forward: self._send.put([i, op, args, kwargs])
SendReq(c) ==
  /\ br.call[c].pc = "send"
  /\ Runs(c)
  /\ BrStep([br EXCEPT !.send = Append(@, [id |-> br.call[c].id, op |-> br.call[c].op,
                                           arg |-> c]),
                       !.call[c].pc = "get"])

\* _forward: self._recv.get() returns the caller's own response, the loop ends
GetOwn(c) ==
  /\ br.call[c].pc = "get"
  /\ Runs(c)
  /\ br.recv # <<>>
  /\ Mine(br.call[c].id, br.recv[QPick(br.kind, br.recv)])
  /\ BrStep([br EXCEPT !.recv = QDrop(@, QPick(br.kind, br.recv)),
                       !.call[c].pc = "done",
                       !.call[c].out = br.recv[QPick(br.kind, br.recv)],
                       !.loop = {}])

\* _forward: self._recv.get() returns a response with another id
GetOther(c) ==
  /\ br.call[c].pc = "get"
  /\ Runs(c)
  /\ br.recv # <<>>
  /\ ~ Mine(br.call[c].id, br.recv[QPick(br.kind, br.recv)])
  /\ BrStep([br EXCEPT !.recv = QDrop(@, QPick(br.kind, br.recv)),
                       !.call[c].pc = "hold",
                       !.call[c].held = br.recv[QPick(br.kind, br.recv)]])

\* _forward of Async: get on the empty queue suspends the coroutine (a thread
\* of Sync or Process blocks in get until the queue holds a response)
GetEmpty(c) ==
  /\ Coop
  /\ br.call[c].pc = "get"
  /\ Runs(c)
  /\ br.recv = <<>>
  /\ BrStep([br EXCEPT !.getters = Append(@, c),
                       !.call[c].pc = "wait",
                       !.loop = {}])

\* _forward: self._recv.put([i_, ret, err]) and back to the get; the put on
\* the unbounded queue does not suspend a coroutine
PutBack(c) ==
  /\ br.call[c].pc = "hold"
  /\ Runs(c)
  /\ BrStep(Wake([br EXCEPT !.recv = Append(@, br.call[c].held),
                            !.call[c].pc = "get",
                            !.call[c].held = NoResp]))

\* the event loop runs a coroutine whose get was woken
Resume(c) ==
  /\ br.call[c].pc = "woken"
  /\ LoopFree
  /\ BrStep([br EXCEPT !.call[c].pc = "get", !.loop = {c}])

\* the worker takes a request; the executor behind Sync runs several at once
WorkerTake ==
  /\ br.send # <<>>
  /\ LoopFree
  /\ Cardinality(br.running) < (IF br.kind = "Sync" THEN BrMaxPar ELSE 1)
  /\ BrStep([br EXCEPT !.send = QDrop(@, QPick(br.kind, br.send)),
                       !.running = @ \cup {br.send[QPick(br.kind, br.send)]}])

\* the worker puts the response of a request it ran
WorkerDone(req) ==
  /\ req \in br.running
  /\ LoopFree
  /\ BrStep(Wake([br EXCEPT !.recv = Append(@, Respond(req)),
                            !.running = @ \ {req}]))

NextBridge ==
  \/ \E c \in Callers, op \in BrOps : TakeId(c, op)
  \/ \E c \in Callers : SendReq(c)
  \/ \E c \in Callers : GetOwn(c)
  \/ \E c \in Callers : GetOther(c)
  \/ \E c \in Callers : GetEmpty(c)
  \/ \E c \in Callers : PutBack(c)
  \/ \E c \in Callers : Resume(c)
  \/ WorkerTake
  \/ \E req \in br.running : WorkerDone(req)

SpecBridge == InitBridge /\ [][NextBridge]_vars

\* the most a scheduler can promise: the worker and every caller keep taking
\* the steps they can take, and a caller that can take its own response again
\* and again does take it
FairBridge ==
  /\ SpecBridge
  /\ WF_vars(WorkerTake)
  /\ WF_vars(\E req \in br.running : WorkerDone(req))
  /\ \A c \in Callers :
       /\ WF_vars(SendReq(c))
       /\ SF_vars(GetOwn(c))
       /\ WF_vars(GetOther(c))
       /\ WF_vars(GetEmpty(c))
       /\ WF_vars(PutBack(c))
       /\ SF_vars(Resume(c))

----------------------------------------------------------------------------
(* Claims on the bridge model (SpecBridge, FairBridge) *)

\* the callers that have taken a task id
Called == {c \in Callers : br.call[c].pc # "idle"}

\* where the request or the response with this task id is: in a queue, with
\* the worker, or in the hands of a caller that took it
Places(i) ==
  Cardinality({k \in 1..Len(br.send) : br.send[k].id = i})
  + Cardinality({k \in 1..Len(br.recv) : br.recv[k].id = i})
  + Cardinality({req \in br.running : req.id = i})
  + Cardinality({c \in Callers : br.call[c].held.id = i})

\* C19: the task ids handed out are distinct and grow with every call; a
\* _forward that has returned has the response with its own id, the answer
\* to its own request; and the request or response of a pending call is in
\* exactly one place, that of a returned call in none.
C19_OwnResponse ==
  /\ \A c \in Called : br.call[c].id \in 0..(br.taskid - 1)
  /\ \A c, d \in Called : c # d => br.call[c].id # br.call[d].id
  /\ br.taskid = Cardinality(Called)
  /\ \A c \in Called :
       IF br.call[c].pc = "done"
       THEN /\ br.call[c].out = Respond([id |-> br.call[c].id, op |-> br.call[c].op,
                                         arg |-> c])
            /\ Places(br.call[c].id) = 0
       ELSE IF br.call[c].pc = "send" THEN Places(br.call[c].id) = 0
       ELSE Places(br.call[c].id) = 1

\* all callers have returned, and one of them had taken and put back a
\* response of another on the way (its own came with the error of info)
C19_Witness ==
  /\ \A c \in Callers : br.call[c].pc = "done"
  /\ \E c \in Callers : br.call[c].out.err # <<>>
  /\ br.recv = <<>>

\* C20: every _forward that waits for its response returns in the end.
C20_EveryForwardReturns ==
  \A c \in Callers : (br.call[c].pc = "get") ~> (br.call[c].pc = "done")

\* the requests the worker starts in this step
Started == br'.running \ br.running

\* C21: the worker starts requests in the order of their task ids: a request
\* is never started while a request with a smaller id waits in the queue.
C21_ServedInIdOrder ==
  [][\A req \in Started : \A k \in 1..Len(br.send) : req.id <= br.send[k].id]_vars

----------------------------------------------------------------------------
(* start and stop of the bridges: one thread starts and stops the bridge,
   another forwards operations while the bridge is started *)

LfCallers == {"ctl", "usr"}

\* __init__: no worker, no queues; the fields made, joined, queues, enq,
\* answered, before and left only record what has happened
LifeInit(kind) ==
  [ kind     |-> kind,
    taskid   |-> 0,
    attr     |-> FALSE,      \* hasattr(self, '_task' / '_loop' / '_proc')
    worker   |-> "none",
    made     |-> 0,
    joined   |-> 0,
    queues   |-> 0,
    send     |-> <<>>,
    recv     |-> <<>>,
    running  |-> {},
    enq      |-> {},
    answered |-> {},
    before   |-> {},
    left     |-> {},
    call     |-> [c \in LfCallers |->
                   [pc |-> "idle", id |-> NoRet, op |-> "none", ret |-> "none",
                    held |-> NoResp]] ]

InitLife ==
  /\ IdleStores /\ dc = <<>> /\ now = 0 /\ wc = <<>> /\ mp = <<>> /\ ax = <<>>
  /\ br \in {LifeInit(kind) : kind \in Kinds}

\* stop: del self._task, del self._loop; Process.stop deletes nothing
Forgets(kind) == kind # "Process"

\* a stop that does not wait for the worker
Detached(b) == TRUE

\* stop: await self._task, self._loop_thread.join(), self._proc.join()
Joined(b) == b.worker = "exited"

\* _forward: i = next(self._taskid) of the call op
Draw(b, c, op) ==
  [b EXCEPT !.taskid = @ + 1,
            !.call[c].pc = "send", !.call[c].id = b.taskid, !.call[c].op = op]

\* start: nothing on a started bridge, else new queues, a new worker and
\* _forward('start')
LfStart ==
  /\ br.call["ctl"].pc = "idle"
  /\ br.taskid < LfMaxIds
  /\ IF br.attr
     THEN BrStep([br EXCEPT !.call["ctl"].ret = "started"])
     ELSE BrStep(Draw([br EXCEPT !.attr = TRUE, !.worker = "alive",
                                 !.made = @ + 1, !.queues = @ + 1,
                                 !.send = <<>>, !.recv = <<>>, !.running = {},
                                 !.enq = {}, !.answered = {}, !.before = {}],
                      "ctl", "start"))

\* stop: nothing on a bridge without the attribute, else _forward('stop')
LfStop ==
  /\ br.call["ctl"].pc = "idle"
  /\ br.taskid + 1 < LfMaxIds
  /\ IF ~ br.attr
     THEN BrStep([br EXCEPT !.call["ctl"].ret = "stopped"])
     ELSE BrStep(Draw([br EXCEPT !.before = br.enq], "ctl", "stop"))

\* an operation forwarded on a started bridge (its self.start() does nothing)
LfOp ==
  /\ br.call["usr"].pc = "idle"
  /\ br.attr
  /\ br.taskid < LfMaxIds
  /\ BrStep(Draw(br, "usr", "ls"))

\* _forward: self._send.put([i, op, args, kwargs])
LfSend(c) ==
  /\ br.call[c].pc = "send"
  /\ BrStep([br EXCEPT !.send = Append(@, [id |-> br.call[c].id, op |-> br.call[c].op,
                                           arg |-> 0]),
                       !.enq = @ \cup {br.call[c].id},
                       !.call[c].pc = "get"])

\* _forward returns with its own response: start and the operation return,
\* stop goes on to the sentinel
LfGetOwn(c) ==
  /\ br.call[c].pc = "get"
  /\ br.recv # <<>>
  /\ Mine(br.call[c].id, br.recv[QPick(br.kind, br.recv)])
  /\ BrStep([br EXCEPT !.recv = QDrop(@, QPick(br.kind, br.recv)),
                       !.call[c].pc = IF br.call[c].op = "stop" THEN "sentinel" ELSE "idle",
                       !.call[c].ret = IF br.call[c].op = "start" THEN "started"
                                       ELSE IF br.call[c].op = "stop" THEN @ ELSE "ls"])

LfGetOther(c) ==
  /\ br.call[c].pc = "get"
  /\ br.recv # <<>>
  /\ ~ Mine(br.call[c].id, br.recv[QPick(br.kind, br.recv)])
  /\ BrStep([br EXCEPT !.recv = QDrop(@, QPick(br.kind, br.recv)),
                       !.call[c].pc = "hold",
                       !.call[c].held = br.recv[QPick(br.kind, br.recv)]])

LfPutBack(c) ==
  /\ br.call[c].pc = "hold"
  /\ BrStep([br EXCEPT !.recv = Append(@, br.call[c].held),
                       !.call[c].pc = "get",
                       !.call[c].held = NoResp])

\* stop: self._send.put([next(self._taskid), None, None, None])
LfSentinel ==
  /\ br.call["ctl"].pc = "sentinel"
  /\ BrStep([br EXCEPT !.send = Append(@, [id |-> br.taskid, op |-> "none", arg |-> 0]),
                       !.taskid = @ + 1,
                       !.call["ctl"].pc = "join"])

\* stop: the join, then the attribute is deleted, and stop returns
LfJoin ==
  /\ br.call["ctl"].pc = "join"
  /\ Joined(br)
  /\ BrStep([br EXCEPT !.attr = ~ Forgets(br.kind),
                       !.joined = @ + 1,
                       !.call["ctl"].pc = "idle",
                       !.call["ctl"].ret = "stopped"])

\* the worker takes a message: a request to run, or the sentinel (op is None)
\* and it leaves its loop
LfWorkerTake ==
  /\ br.worker = "alive"
  /\ br.send # <<>>
  /\ Cardinality(br.running) < (IF br.kind = "Sync" THEN BrMaxPar ELSE 1)
  /\ IF br.send[QPick(br.kind, br.send)].op = "none"
     THEN BrStep([br EXCEPT !.send = QDrop(@, QPick(br.kind, br.send)),
                            !.worker = "closing"])
     ELSE BrStep([br EXCEPT !.send = QDrop(@, QPick(br.kind, br.send)),
                            !.running = @ \cup {br.send[QPick(br.kind, br.send)]}])

\* the worker puts the response of a request it ran
LfWorkerDone(req) ==
  /\ req \in br.running
  /\ br.worker \in {"alive", "closing"}
  /\ BrStep([br EXCEPT !.recv = Append(@, Respond(req)),
                       !.answered = @ \cup {req.id},
                       !.running = @ \ {req}])

\* the worker ends once the requests it still runs are done (the executor of
\* Sync gathers its tasks on exit)
LfWorkerExit ==
  /\ br.worker = "closing"
  /\ br.running = {}
  /\ BrStep([br EXCEPT !.worker = "exited", !.left = br.before \ br.answered])

NextLife ==
  \/ LfStart
  \/ LfStop
  \/ LfOp
  \/ \E c \in LfCallers : LfSend(c)
  \/ \E c \in LfCallers : LfGetOwn(c)
  \/ \E c \in LfCallers : LfGetOther(c)
  \/ \E c \in LfCallers : LfPutBack(c)
  \/ LfSentinel
  \/ LfJoin
  \/ LfWorkerTake
  \/ \E req \in br.running : LfWorkerDone(req)
  \/ LfWorkerExit

SpecLife == InitLife /\ [][NextLife]_vars

----------------------------------------------------------------------------
(* Claims on start and stop (SpecLife) *)

\* C22: start and stop are idempotent: there is never a second worker beside
\* one that was not joined, every worker has its own pair of queues, and a
\* stop never forwards to a worker that has exited.
C22_StartStopIdempotent ==
  /\ br.made - br.joined \in {0, 1}
  /\ br.queues = br.made
  /\ ~ (br.worker = "exited" /\ br.call["ctl"].op = "stop"
        /\ br.call["ctl"].pc \in {"send", "get", "hold"})

\* C23: stop posts the sentinel and joins the worker: when the worker exits,
\* every request that was in the queue when stop was called has been
\* answered; the worker leaves only by consuming the sentinel; and once stop
\* has returned no worker is running.
C23_StopJoinsWorker ==
  /\ br.left = {}
  /\ br.worker \in {"closing", "exited"} =>
       \A k \in 1..Len(br.send) : br.send[k].op # "none"
  /\ (br.call["ctl"].pc = "idle" /\ br.call["ctl"].ret = "stopped") =>
       br.worker \in {"none", "exited"}

\* a stop has returned from its join, and a request of the other thread was
\* in the queue when that stop was called
C23_Witness ==
  /\ br.call["ctl"].pc = "idle" /\ br.call["ctl"].ret = "stopped"
  /\ br.worker = "exited" /\ br.joined = 1
  /\ br.call["usr"].id \in br.before

----------------------------------------------------------------------------
(* Sync(Async(Memory())) driven by one caller, beside a Memory() driven
   directly with the same calls *)

SaLim == [paths |-> OnePaths, maxlen |-> SaMaxLen, maxfd |-> SaMaxFd, maxopen |-> 1]

\* the arguments of a call; a call uses the fields its operation takes
Args(op, path, dst, mode, fd, pos, whence, data) ==
  [ op |-> op, path |-> path, dst |-> dst, mode |-> mode, fd |-> fd, pos |-> pos,
    whence |-> whence, data |-> data ]

\* what a call returns: a number, bytes, a listing or a kind of file
Val(ret, data, names, type) == [ret |-> ret, data |-> data, names |-> names, type |-> type]

NoVal == Val(NoRet, <<>>, {}, "none")

Done(r) == [m |-> r.m, err |-> r.err, val |-> Val(r.ret, r.data, {}, "none")]

\* func = getattr(ufs, op); func(*args, **kwargs) on a Memory store
Apply(m, a) ==
  CASE a.op = "ls" ->
         [m |-> m, err |-> MLs(m, a.path).err,
          val |-> Val(NoRet, <<>>, MLs(m, a.path).names, "none")]
    [] a.op = "info" ->
         [m |-> m, err |-> MInfo(m, a.path).err,
          val |-> Val(MInfo(m, a.path).size, <<>>, {}, MInfo(m, a.path).type)]
    [] a.op = "open" -> Done(MOpen(m, a.path, a.mode))
    [] a.op = "seek" -> Done(MSeek(m, a.fd, a.pos, a.whence))
    [] a.op = "read" -> Done(MRead(m, a.fd, a.pos))
    [] a.op = "write" -> Done(MWrite(m, a.fd, a.data))
    [] a.op = "truncate" -> Done(MTruncate(m, a.fd, a.pos))
    [] a.op = "close" -> Done(MClose(m, a.fd))
    [] a.op = "unlink" -> Done(MUnlink(m, a.path))
    [] a.op = "mkdir" -> Done(MMkdir(m, a.path))
    [] a.op = "rmdir" -> Done(MRmdir(m, a.path))
    [] a.op = "copy" -> Done(MCopy(m, a.path, a.dst))
    [] a.op = "rename" -> Done(MRename(m, a.path, a.dst))
    [] OTHER -> [m |-> m, err |-> "ok", val |-> NoVal]

\* what the caller sees of a call made directly
Seen(r) == [err |-> r.err, val |-> IF r.err = "ok" THEN r.val ELSE NoVal]

\* the worker's response: [i, res, None], or [i, None, err] when func raised
Answer(i, r) ==
  IF r.err = "ok" THEN [id |-> i, val |-> r.val, err |-> "ok"]
  ELSE [id |-> i, val |-> NoVal, err |-> r.err]

\* a caller that returns the value of every response and never raises
Swallow(resp) == [err |-> "ok", val |-> resp.val]

\* _forward: if err is not None: raise err, else: return ret
Unwrap(resp) ==
  IF resp.err # "ok" THEN [err |-> resp.err, val |-> NoVal]
  ELSE [err |-> "ok", val |-> resp.val]

NoArgs == Args("none", <<>>, <<>>, "rb", NoFd, 0, 0, <<>>)

\* Sync(Async(Memory())) as constructed: two counters of task ids, no queues yet
SyncAsyncInit ==
  [ store |-> MemoryInit,       \* the Memory store the worker thread of Async builds
    stid  |-> 0,                \* Sync._taskid
    atid  |-> 0,                \* Async._taskid
    ssend |-> <<>>, srecv |-> <<>>,      \* the queues of Sync
    asend |-> <<>>, arecv |-> <<>>,      \* the queues of Async
    task  |-> <<>>,             \* _run_and_return tasks: the Sync id and the Async id
    pc    |-> "new",
    id    |-> NoRet,
    call  |-> NoArgs,
    want  |-> Seen([err |-> "ok", val |-> NoVal]),
    got   |-> Seen([err |-> "ok", val |-> NoVal]),
    calls |-> 0 ]

InitSA ==
  /\ IdleStores /\ dc = <<>> /\ now = 0 /\ wc = <<>> /\ mp = <<>> /\ ax = <<>>
  /\ br = SyncAsyncInit

\* the calls of the caller: every operation Sync forwards, on one name
SaCalls ==
  LET Fds == FirstFd..(FirstFd + SaLim.maxfd - 1)
      Datas == SeqsUpTo(Byte, SaLim.maxlen)
      P == SaLim.paths
  IN {Args(op, path, <<>>, "rb", NoFd, 0, 0, <<>>) :
        op \in {"ls", "info", "unlink", "mkdir", "rmdir"}, path \in P}
     \cup {Args("open", path, <<>>, mode, NoFd, 0, 0, <<>>) : path \in P, mode \in Modes}
     \cup {Args("seek", <<>>, <<>>, "rb", fd, pos, whence, <<>>) :
             fd \in Fds, pos \in 0..SaLim.maxlen, whence \in 0..2}
     \cup {Args(op, <<>>, <<>>, "rb", fd, pos, 0, <<>>) :
             op \in {"read", "truncate"}, fd \in Fds, pos \in 0..SaLim.maxlen}
     \cup {Args("write", <<>>, <<>>, "rb", fd, 0, 0, data) : fd \in Fds, data \in Datas}
     \cup {Args("close", <<>>, <<>>, "rb", fd, 0, 0, <<>>) : fd \in Fds}
     \cup {Args(op, src, dst, "rb", NoFd, 0, 0, <<>>) :
             op \in {"copy", "rename"}, src \in P, dst \in P}

\* the call stays within the bounds of the model
SaFits(m, a) ==
  /\ a.op = "open" => CanOpen(m, 1, SaLim)
  /\ a.op = "seek" => FitsSeek(m, a.fd, a.pos, a.whence, SaLim)
  /\ a.op = "write" => FitsWrite(m, a.fd, a.data, SaLim)

\* Sync._forward up to its get: the task id and the put of the request;
\* the same call is made on the Memory store driven directly
SaForward(a, next) ==
  /\ mem' = Apply(mem, a).m
  /\ br' = [br EXCEPT !.stid = @ + 1,
                      !.ssend = Append(@, [id |-> br.stid, call |-> a]),
                      !.pc = "wait", !.id = br.stid, !.call = a,
                      !.want = Seen(Apply(mem, a)),
                      !.calls = next]
  /\ UNCHANGED <<lower, upper, ofds, ocfd, last, dirty, rec, dc, now, wc, mp, ax>>

\* Sync.start: the loop thread and _forward('start')
SaStart ==
  /\ br.pc = "new"
  /\ SaForward(Args("start", <<>>, <<>>, "rb", NoFd, 0, 0, <<>>), 0)

\* a method of Sync: _forward(op, ...)
SaCall(a) ==
  /\ br.pc = "idle"
  /\ br.calls < SaMaxCalls
  /\ SaFits(mem, a)
  /\ SaForward(a, br.calls + 1)

\* async_ufs_proc and _run_and_return up to the await in Async._forward: the
\* request is taken, the coroutine of Async draws its own id and puts its request
SaSyncWorker ==
  /\ br.ssend # <<>>
  /\ BrStep([br EXCEPT !.ssend = QDrop(@, QPick("Sync", br.ssend)),
                       !.atid = @ + 1,
                       !.asend = Append(@, [id |-> br.atid,
                                            call |-> br.ssend[QPick("Sync", br.ssend)].call]),
                       !.task = Append(@, [sid |-> br.ssend[QPick("Sync", br.ssend)].id,
                                           aid |-> br.atid])])

\* ufs_thread: the request is taken and run on the store, the response is put
SaAsyncWorker ==
  /\ br.asend # <<>>
  /\ BrStep([br EXCEPT !.asend = QDrop(@, QPick("Async", br.asend)),
                       !.store = Apply(br.store, br.asend[QPick("Async", br.asend)].call).m,
                       !.arecv = Append(@, Answer(br.asend[QPick("Async", br.asend)].id,
                                     Apply(br.store, br.asend[QPick("Async", br.asend)].call)))])

\* Async._forward returns or raises in _run_and_return, which puts the
\* response of Sync
SaAsyncReturn(k) ==
  /\ k \in 1..Len(br.task)
  /\ br.arecv # <<>>
  /\ Mine(br.task[k].aid, br.arecv[QPick("Async", br.arecv)])
  /\ BrStep([br EXCEPT !.arecv = QDrop(@, QPick("Async", br.arecv)),
                       !.task = QDrop(@, k),
                       !.srecv = Append(@, Answer(br.task[k].sid,
                                    Unwrap(br.arecv[QPick("Async", br.arecv)])))])

\* Sync._forward returns or raises
SaSyncReturn ==
  /\ br.pc = "wait"
  /\ br.srecv # <<>>
  /\ Mine(br.id, br.srecv[QPick("Sync", br.srecv)])
  /\ BrStep([br EXCEPT !.srecv = QDrop(@, QPick("Sync", br.srecv)),
                       !.pc = "idle",
                       !.got = Unwrap(br.srecv[QPick("Sync", br.srecv)])])

NextSA ==
  \/ SaStart
  \/ \E a \in SaCalls : SaCall(a)
  \/ SaSyncWorker
  \/ SaAsyncWorker
  \/ \E k \in 1..Len(br.task) : SaAsyncReturn(k)
  \/ SaSyncReturn

SpecSA == InitSA /\ [][NextSA]_vars

----------------------------------------------------------------------------
(* Claims on Sync(Async(Memory())) (SpecSA) *)

----------------------------------------------------------------------------
(* DescriptorFromAtomicMixin, the write side: one handle opened with mode w,
   the QueuedIterator between the caller and the thread that runs put *)

\* what is in the queue: a chunk of bytes, or None
Chunk(data) == [none |-> FALSE, data |-> data]

None == [none |-> TRUE, data |-> <<>>]

\* `not item` of QueuedIterator.__iter__: None is falsy, and so is b''
Falsy(item) == item.none \/ item.data = <<>>

\* an iteration that ends at None only
IsNone(item) == item.none

\* open(path, 'w'): the queue, the thread on put(path, queue), the handle
DescriptorInit ==
  [ pc      |-> "new",      \* the caller: new, open, joining, closed
    queue   |-> <<>>,       \* QueuedIterator
    thread  |-> "none",     \* the thread of put: none, running, finished
    taken   |-> <<>>,       \* the chunks put has consumed
    stored  |-> <<>>,       \* what put has stored at the path
    written |-> <<>>,       \* the chunks of the write calls so far
    writes  |-> 0 ]

InitDF ==
  /\ IdleStores /\ dc = <<>> /\ now = 0 /\ wc = <<>> /\ mp = <<>> /\ ax = <<>>
  /\ br = DescriptorInit

RECURSIVE Concat(_)
\* b''.join(chunks)
Concat(chunks) == IF chunks = <<>> THEN <<>> ELSE Head(chunks) \o Concat(Tail(chunks))

DfOpen ==
  /\ br.pc = "new"
  /\ BrStep([br EXCEPT !.pc = "open", !.thread = "running"])

\* write: QueuedIterator.write puts the chunk
DfWrite(data) ==
  /\ br.pc = "open"
  /\ br.writes < DfMaxWrites
  /\ BrStep([br EXCEPT !.queue = Append(@, Chunk(data)),
                       !.written = Append(@, data),
                       !.writes = @ + 1])

\* close: QueuedIterator.close puts None, then the join of the thread
DfClose ==
  /\ br.pc = "open"
  /\ BrStep([br EXCEPT !.queue = Append(@, None), !.pc = "joining"])

\* close returns once the thread has finished
DfJoin ==
  /\ br.pc = "joining"
  /\ br.thread = "finished"
  /\ BrStep([br EXCEPT !.pc = "closed"])

\* the thread of put: the next item of QueuedIterator.__iter__; at a falsy
\* item the iteration ends and put stores what it has consumed
DfTake ==
  /\ br.thread = "running"
  /\ br.queue # <<>>
  /\ IF Falsy(Head(br.queue))
     THEN BrStep([br EXCEPT !.queue = Tail(@), !.thread = "finished",
                            !.stored = Concat(br.taken)])
     ELSE BrStep([br EXCEPT !.queue = Tail(@),
                            !.taken = Append(@, Head(br.queue).data)])

NextDF ==
  \/ DfOpen
  \/ \E data \in SeqsUpTo(Byte, DfMaxLen) : DfWrite(data)
  \/ DfClose
  \/ DfJoin
  \/ DfTake

SpecDF == InitDF /\ [][NextDF]_vars

\* C25: when close has returned, put has finished and what it consumed and
\* stored is the concatenation of the chunks written, in order.
C25_PutGetsAllWritten ==
  br.pc = "closed" =>
    /\ br.thread = "finished"
    /\ br.stored = Concat(br.written)

----------------------------------------------------------------------------
(* The prefix tree: create_prefix_tree_from_paths, search_prefix_tree,
   list_prefix_tree *)

\* SafePurePosixPath(path).parts: the root '/' and the components
Parts(path) == <<"/">> \o path

\* the value under the key None: a registered prefix, or None
Fallback(path) == [some |-> TRUE, path |-> path]

NoPrefix == [some |-> FALSE, path |-> <<>>]

\* tree = {None: None}; a tree is kept as the function from the keys that
\* lead to a dict of the nested dicts to the fallback of that dict
EmptyTree == (<<>> :> NoPrefix)

RECURSIVE Walk(_, _, _)
\* the loop over front_paths: a missing dict is created with the fallback
\* of the dict it is put in
Walk(tree, parts, i) ==
  IF i >= Len(parts) THEN tree
  ELSE Walk(IF SubSeq(parts, 1, i) \in DOMAIN tree THEN tree
            ELSE tree @@ (SubSeq(parts, 1, i) :> tree[SubSeq(parts, 1, i - 1)]),
            parts, i + 1)

\* the dict at the end of the walk gets a new dict {None: path} under
\* last_path, whatever was under that key before
Graft(tree, parts, path) ==
  [k \in {x \in DOMAIN tree : ~ IsPrefix(parts, x)} \cup {parts} |->
     IF k = parts THEN Fallback(path) ELSE tree[k]]

\* one round of the loop of create_prefix_tree_from_paths
Insert(tree, path) == Graft(Walk(tree, Parts(path), 1), Parts(path), path)

RECURSIVE InsertAll(_, _)
InsertAll(tree, paths) ==
  IF paths = <<>> THEN tree ELSE InsertAll(Insert(tree, Head(paths)), Tail(paths))

create_prefix_tree_from_paths(paths) == InsertAll(EmptyTree, paths)

\* len(tree) == 1: the dict has the key None only
IsLeaf(tree, key) ==
  ~ \E k \in DOMAIN tree : Len(k) = Len(key) + 1 /\ IsPrefix(key, k)

RECURSIVE SearchFrom(_, _, _)
\* the loop of search_prefix_tree, before part i of the path: in a leaf it
\* returns the parts after part i, at a missing part and after the last part
\* it returns the path as it was given
SearchFrom(tree, path, i) ==
  IF i > Len(Parts(path))
  THEN [prefix |-> tree[Parts(path)], sub |-> path]
  ELSE IF SubSeq(Parts(path), 1, i) \in DOMAIN tree
       THEN IF IsLeaf(tree, SubSeq(Parts(path), 1, i))
            THEN [prefix |-> tree[SubSeq(Parts(path), 1, i)],
                  sub |-> SubSeq(path, i, Len(path))]
            ELSE SearchFrom(tree, path, i + 1)
       ELSE [prefix |-> tree[SubSeq(Parts(path), 1, i - 1)], sub |-> path]

search_prefix_tree(tree, path) == SearchFrom(tree, path, 1)

----------------------------------------------------------------------------
(* The model of the prefix tree: prefixes inserted in some order, then
   searches *)

PtPaths == SeqsUpTo(Names, PtMaxDepth)

\* the lists of distinct prefixes
PtLists ==
  {l \in SeqsUpTo(PtPaths, PtMaxPrefixes) :
     l # <<>> /\ \A i, j \in 1..Len(l) : i # j => l[i] # l[j]}

NoFound == [prefix |-> NoPrefix, sub |-> <<>>]

InitPT ==
  /\ IdleStores /\ dc = <<>> /\ now = 0 /\ wc = <<>> /\ br = <<>> /\ ax = <<>>
  /\ mp \in {[todo |-> l, done |-> <<>>, tree |-> EmptyTree, asked |-> FALSE,
              query |-> <<>>, found |-> NoFound] : l \in PtLists}

PtStep(x) ==
  /\ mp' = x
  /\ UNCHANGED <<storeVars, dc, now, wc, br, ax>>

PtInsert ==
  /\ mp.todo # <<>>
  /\ PtStep([mp EXCEPT !.todo = Tail(@), !.done = Append(@, Head(mp.todo)),
                       !.tree = Insert(@, Head(mp.todo))])

PtSearch(path) ==
  /\ mp.todo = <<>>
  /\ PtStep([mp EXCEPT !.asked = TRUE, !.query = path,
                       !.found = search_prefix_tree(mp.tree, path)])

NextPT ==
  \/ PtInsert
  \/ \E path \in PtPaths : PtSearch(path)

SpecPT == InitPT /\ [][NextPT]_vars

\* the registered prefixes that are the path or an ancestor of it
Matches(paths, path) == {paths[i] : i \in {j \in 1..Len(paths) : IsPrefix(paths[j], path)}}

\* the longest of them
Longest(paths, path) ==
  CHOOSE x \in Matches(paths, path) : \A y \in Matches(paths, path) : Len(y) <= Len(x)

\* every prefix was inserted after its ancestors
AncestorsFirst(paths) ==
  \A i, j \in 1..Len(paths) : (i # j /\ IsPrefix(paths[i], paths[j])) => i < j

\* C26: with the prefixes inserted ancestors first, a search for a path that
\* has a registered prefix gives the longest registered prefix that is the
\* path or an ancestor of it, and the rest of the path below that prefix.
C26_SearchLongestPrefix ==
  (mp.asked /\ AncestorsFirst(mp.done) /\ Matches(mp.done, mp.query) # {}) =>
    /\ mp.found.prefix = Fallback(Longest(mp.done, mp.query))
    /\ mp.found.prefix.path \o mp.found.sub = mp.query

\* the lists with the same prefixes in another order
Orders(paths) ==
  {l \in PtLists : Len(l) = Len(paths) /\ {l[i] : i \in 1..Len(l)} = {paths[i] : i \in 1..Len(paths)}}

\* C27: a search gives what it gives with the same prefixes inserted in any
\* other order.
C27_OrderIndependent ==
  mp.asked =>
    \A l \in Orders(mp.done) :
      search_prefix_tree(create_prefix_tree_from_paths(l), mp.query) = mp.found

----------------------------------------------------------------------------
(* Mapper: a Mapper x is [tree, pathmap, stores, fds, cfd] *)

RECURSIVE ListFrom(_, _, _)
\* the loop of list_prefix_tree, before part i of the path: the fallback,
\* the path below it, and the keys of the dict the path ends in (None when
\* it ends in a leaf or at a missing part)
ListFrom(tree, path, i) ==
  IF i > Len(Parts(path))
  THEN [prefix |-> tree[Parts(path)], sub |-> path, listed |-> TRUE,
        keys |-> {k[Len(k)] : k \in {x \in DOMAIN tree :
                    Len(x) = Len(Parts(path)) + 1 /\ IsPrefix(Parts(path), x)}}]
  ELSE IF SubSeq(Parts(path), 1, i) \in DOMAIN tree
       THEN IF IsLeaf(tree, SubSeq(Parts(path), 1, i))
            THEN [prefix |-> tree[SubSeq(Parts(path), 1, i)],
                  sub |-> SubSeq(path, i, Len(path)), listed |-> FALSE, keys |-> {}]
            ELSE ListFrom(tree, path, i + 1)
       ELSE [prefix |-> tree[SubSeq(Parts(path), 1, i - 1)], sub |-> path,
             listed |-> FALSE, keys |-> {}]

list_prefix_tree(tree, path) == ListFrom(tree, path, 1)

\* Mapper(pathmap): routes holds the keys of pathmap in the order of the dict
MapperInit(routes, names) ==
  [ tree    |-> create_prefix_tree_from_paths(routes),
    pathmap |-> [r \in {routes[i] : i \in 1..Len(routes)} |->
                   names[CHOOSE i \in 1..Len(routes) : routes[i] = r]],
    stores  |-> [n \in {names[i] : i \in 1..Len(names)} |-> MemoryInit],
    fds     |-> <<>>,
    cfd     |-> 0 ]

MpOut(x, err, val) == [x |-> x, err |-> err, val |-> IF err = "ok" THEN val ELSE NoVal]

\* a match that sends every path to the store of the root route
ToRoot(x, path) == [err |-> "ok", ufs |-> x.pathmap[<<>>], sub |-> path]

\* Mapper._matchpath
MpMatch(x, path) ==
  IF search_prefix_tree(x.tree, path).prefix.some
     /\ search_prefix_tree(x.tree, path).prefix.path \in DOMAIN x.pathmap
  THEN [err |-> "ok", ufs |-> x.pathmap[search_prefix_tree(x.tree, path).prefix.path],
        sub |-> search_prefix_tree(x.tree, path).sub]
  ELSE [err |-> "FileNotFoundError", ufs |-> "none", sub |-> <<>>]

\* Mapper.ls: the listing of the store the path falls in, if it has one,
\* and the route prefixes at that level
MpLs(x, path) ==
  Bind(list_prefix_tree(x.tree, path), LAMBDA l :
    Bind(IF l.prefix.some /\ l.prefix.path \in DOMAIN x.pathmap
         THEN MLs(x.stores[x.pathmap[l.prefix.path]], l.sub)
         ELSE [err |-> "FileNotFoundError", names |-> {}], LAMBDA u :
      IF ~ l.listed /\ u.err # "ok" THEN MpOut(x, "FileNotFoundError", NoVal)
      ELSE MpOut(x, "ok", Val(NoRet, <<>>, u.names \cup l.keys, "none"))))

\* info, unlink, mkdir, rmdir: _matchpath, then the operation of the store
MpOnPath(x, a) ==
  Bind(MpMatch(x, a.path), LAMBDA t :
    IF t.err # "ok" THEN MpOut(x, t.err, NoVal) ELSE
    Bind(Apply(x.stores[t.ufs], [a EXCEPT !.path = t.sub]), LAMBDA r :
      MpOut([x EXCEPT !.stores[t.ufs] = r.m], r.err, r.val)))

\* Mapper.open: the open of the store, then the handle of the Mapper
MpOpen(x, a) ==
  Bind(MpMatch(x, a.path), LAMBDA t :
    IF t.err # "ok" THEN MpOut(x, t.err, NoVal) ELSE
    Bind(Apply(x.stores[t.ufs], [a EXCEPT !.path = t.sub]), LAMBDA r :
      IF r.err # "ok" THEN MpOut([x EXCEPT !.stores[t.ufs] = r.m], r.err, NoVal)
      ELSE MpOut([x EXCEPT !.stores[t.ufs] = r.m, !.cfd = @ + 1,
                           !.fds = Put(@, x.cfd, [ufs |-> t.ufs, fd |-> r.val.ret])],
                 "ok", Val(x.cfd, <<>>, {}, "none"))))

\* seek, read, write, truncate, flush: ufs, ufs_fd = self._fds[fd]
MpOnHandle(x, a) ==
  IF a.fd \notin DOMAIN x.fds THEN MpOut(x, "KeyError", NoVal) ELSE
  Bind(Apply(x.stores[x.fds[a.fd].ufs], [a EXCEPT !.fd = x.fds[a.fd].fd]), LAMBDA r :
    MpOut([x EXCEPT !.stores[x.fds[a.fd].ufs] = r.m], r.err, r.val))

\* Mapper.close: ufs, ufs_fd = self._fds.pop(fd)
MpClose(x, a) ==
  IF a.fd \notin DOMAIN x.fds THEN MpOut(x, "KeyError", NoVal) ELSE
  Bind(Apply(x.stores[x.fds[a.fd].ufs], [a EXCEPT !.fd = x.fds[a.fd].fd]), LAMBDA r :
    MpOut([x EXCEPT !.stores[x.fds[a.fd].ufs] = r.m, !.fds = Del(@, a.fd)], r.err, r.val))

\* movefile as Mapper.rename imports it: shutil.py defines movefile twice,
\* the second time as a coroutine function, and that is the one the name is
\* bound to; the call makes a coroutine that is never awaited
movefile(x, src, dst) == x

\* Mapper.rename
MpRename(x, a) ==
  IF MpMatch(x, a.path).err # "ok" THEN MpOut(x, MpMatch(x, a.path).err, NoVal)
  ELSE IF MpMatch(x, a.dst).err # "ok" THEN MpOut(x, MpMatch(x, a.dst).err, NoVal)
  ELSE MpOut(movefile(x, MpMatch(x, a.path), MpMatch(x, a.dst)), "ok", NoVal)

PathOps == {"info", "unlink", "mkdir", "rmdir"}

MpHandleOps == {"seek", "read", "write", "truncate", "flush"}

\* a method of the Mapper
MpCall(x, a) ==
  CASE a.op = "ls" -> MpLs(x, a.path)
    [] a.op \in PathOps -> MpOnPath(x, a)
    [] a.op = "open" -> MpOpen(x, a)
    [] a.op \in MpHandleOps -> MpOnHandle(x, a)
    [] a.op = "close" -> MpClose(x, a)
    [] a.op = "rename" -> MpRename(x, a)

----------------------------------------------------------------------------
(* The model of Mapper({'/': R, '/a/b': S}), R and S two Memory stores *)

SubRoute == <<"a", "b">>

MpPaths == {<<>>, <<"a">>, <<"b">>, SubRoute, SubRoute \o <<"a">>}

MpLim == [paths |-> MpPaths, maxlen |-> MpMaxLen, maxfd |-> MpMaxFd, maxopen |-> MpMaxFd]

NoFile == [file |-> FALSE, content |-> <<>>]

\* beside the Mapper the state keeps the last call, what it gave, and for
\* a rename the file that was at src when it was called and whether there
\* was nothing at dst
InitMP ==
  /\ IdleStores /\ dc = <<>> /\ now = 0 /\ wc = <<>> /\ br = <<>> /\ ax = <<>>
  /\ mp = [x |-> MapperInit(<< <<>>, SubRoute >>, <<"R", "S">>),
           call |-> NoArgs, out |-> Seen([err |-> "ok", val |-> NoVal]), was |-> NoFile,
           free |-> FALSE]

MpCalls ==
  LET Fds == 0..(MpMaxFd - 1)
      P == MpPaths
  IN {Args(op, path, <<>>, "rb", NoFd, 0, 0, <<>>) :
        op \in {"ls", "info", "unlink", "mkdir", "rmdir"}, path \in P}
     \cup {Args("open", path, <<>>, mode, NoFd, 0, 0, <<>>) : path \in P, mode \in {"rb", "wb"}}
     \cup {Args(op, <<>>, <<>>, "rb", fd, 0, 0, <<>>) : op \in {"seek", "flush"}, fd \in Fds}
     \cup {Args(op, <<>>, <<>>, "rb", fd, pos, 0, <<>>) :
             op \in {"read", "truncate"}, fd \in Fds, pos \in {MpMaxLen}}
     \cup {Args("write", <<>>, <<>>, "rb", fd, 0, 0, <<0>>) : fd \in Fds}
     \cup {Args("close", <<>>, <<>>, "rb", fd, 0, 0, <<>>) : fd \in Fds}
     \cup {c \in {Args("rename", src, dst, "rb", NoFd, 0, 0, <<>>) :
                     src \in P \ {<<>>}, dst \in P \ {<<>>}} : c.path # c.dst}

\* the call stays within the bounds of the model
MpFits(x, a) ==
  /\ a.op = "open" =>
       /\ x.cfd < MpMaxFd
       /\ \A n \in DOMAIN x.stores : CanOpen(x.stores[n], 1, MpLim)
  /\ a.op = "write" =>
       (a.fd \in DOMAIN x.fds =>
          FitsWrite(x.stores[x.fds[a.fd].ufs], x.fds[a.fd].fd, a.data, MpLim))

\* the file at a path, as a Mapper that routes by the longest prefix has it
FileAt(x, path) ==
  LET n == IF IsPrefix(SubRoute, path) THEN "S" ELSE "R"
      sub == IF IsPrefix(SubRoute, path) THEN SubSeq(path, 3, Len(path)) ELSE path
  IN IF sub \in DOMAIN x.stores[n].inodes /\ Inode(x.stores[n], sub).type = "file"
     THEN [file |-> TRUE, content |-> Inode(x.stores[n], sub).content]
     ELSE NoFile

\* nothing is at a path, as a Mapper that routes by the longest prefix has it
Free(x, path) ==
  IF IsPrefix(SubRoute, path)
  THEN SubSeq(path, 3, Len(path)) \notin DOMAIN x.stores["S"].inodes
  ELSE path \notin DOMAIN x.stores["R"].inodes

\* the state after the call a
MpAfter(a) ==
  Bind(MpCall(mp.x, a), LAMBDA r :
    [x |-> r.x, call |-> a, out |-> [err |-> r.err, val |-> r.val],
     was |-> IF a.op = "rename" THEN FileAt(mp.x, a.path) ELSE NoFile,
     free |-> a.op = "rename" /\ Free(mp.x, a.dst)])

MpStep(a) == MpFits(mp.x, a) /\ mp' = MpAfter(a)

MpLsA ==
  /\ \E a \in {c \in MpCalls : c.op = "ls"} : MpStep(a)
  /\ UNCHANGED <<storeVars, dc, now, wc, br, ax>>

MpPathA ==
  /\ \E a \in {c \in MpCalls : c.op \in PathOps} : MpStep(a)
  /\ UNCHANGED <<storeVars, dc, now, wc, br, ax>>

MpOpenA ==
  /\ \E a \in {c \in MpCalls : c.op = "open"} : MpStep(a)
  /\ UNCHANGED <<storeVars, dc, now, wc, br, ax>>

MpHandleA ==
  /\ \E a \in {c \in MpCalls : c.op \in MpHandleOps} : MpStep(a)
  /\ UNCHANGED <<storeVars, dc, now, wc, br, ax>>

MpCloseA ==
  /\ \E a \in {c \in MpCalls : c.op = "close"} : MpStep(a)
  /\ UNCHANGED <<storeVars, dc, now, wc, br, ax>>

MpRenameA ==
  /\ \E a \in {c \in MpCalls : c.op = "rename"} : MpStep(a)
  /\ UNCHANGED <<storeVars, dc, now, wc, br, ax>>

NextMP ==
  \/ MpLsA
  \/ MpPathA
  \/ MpOpenA
  \/ MpHandleA
  \/ MpCloseA
  \/ MpRenameA

SpecMP == InitMP /\ [][NextMP]_vars

----------------------------------------------------------------------------
(* Claims on the Mapper (SpecMP) *)

\* where Mapper{/: R, /a/b: S} is to send a path: below /a/b to S with the
\* path below /a/b, anywhere else to R with the whole path
Route(path) ==
  IF IsPrefix(SubRoute, path)
  THEN [ufs |-> "S", sub |-> SubSeq(path, Len(SubRoute) + 1, Len(path))]
  ELSE [ufs |-> "R", sub |-> path]

Other(n) == IF n = "S" THEN "R" ELSE "S"

\* the step made the call a on store n as the call b, and on no other store
Dispatched(a, n, b) ==
  /\ mp'.x.stores[n] = Apply(mp.x.stores[n], b).m
  /\ mp'.x.stores[Other(n)] = mp.x.stores[Other(n)]
  /\ mp'.out.err = Apply(mp.x.stores[n], b).err
  /\ (mp'.out.err = "ok" /\ a.op # "open") => mp'.out.val = Apply(mp.x.stores[n], b).val

MpListed(x, path) ==
  IF MpLs(x, path).err = "ok" THEN MpLs(x, path).val.names ELSE {}

MpInfoOk(x, path) ==
  MpOnPath(x, Args("info", path, <<>>, "rb", NoFd, 0, 0, <<>>)).err = "ok"

\* C29: through the Mapper, the last name of every path other than the root
\* is in ls of its parent exactly when info of the path succeeds, the
\* components of a route prefix included.
C29_ListingCoherent ==
  \A p \in MpPaths \ {<<>>} :
    (p[Len(p)] \in MpListed(mp.x, SubSeq(p, 1, Len(p) - 1))) <=> MpInfoOk(mp.x, p)

\* C30: when Mapper.rename(src, dst) returns without raising, there was a
\* file at src and nothing at dst, then info(src) raises FileNotFoundError
\* and the file at dst has the content that was at src, whether src and dst
\* are in the same store or not.
C30_RenameMoves ==
  (mp.call.op = "rename" /\ mp.out.err = "ok" /\ mp.was.file /\ mp.free) =>
    /\ ~ MpInfoOk(mp.x, mp.call.path)
    /\ FileAt(mp.x, mp.call.dst) = mp.was

----------------------------------------------------------------------------
(* ufs.access.shutil.walk over a Memory store.  ax is [m, root, dirfirst,
   pc, Q, out]: the store, the arguments, where the generator stands, its
   list Q and what it has yielded. *)

WkPaths == SeqsUpTo(Names, WkMaxDepth)

WkKinds == {"none", "file", "directory"}

\* the trees: what is at every path but the root, nothing below what is no
\* directory
WkShapes ==
  {k \in [WkPaths \ {<<>>} -> WkKinds] :
     \A q \in WkPaths \ {<<>>} :
       (k[q] # "none" /\ Len(q) > 1) => k[pathparent(q)] = "directory"}

\* an empty file at path: open(path, 'wb') and close
Touch(m, path) == MClose(MOpen(m, path, "wb").m, MOpen(m, path, "wb").ret).m

RECURSIVE Grow(_, _, _)
\* the store that holds the tree k, built from paths todo
Grow(m, k, todo) ==
  IF todo = {} THEN m
  ELSE LET q == CHOOSE x \in todo : \A y \in todo : Len(x) <= Len(y)
       IN Grow(CASE k[q] = "directory" -> MMkdir(m, q).m
                 [] k[q] = "file" -> Touch(m, q)
                 [] OTHER -> m,
               k, todo \ {q})

\* the orders a listing can come in
Listings(names) ==
  {l \in SeqsUpTo(names, Cardinality(names)) :
     Len(l) = Cardinality(names) /\ \A i, j \in 1..Len(l) : l[i] = l[j] => i = j}

\* [(path/p, False) for p in ufs.ls(path)] with the listing in the order l
Children(path, l) == [i \in 1..Len(l) |-> [path |-> Append(path, l[i]), empty |-> FALSE]]

Yield(x, path) ==
  [x EXCEPT !.out = Append(@, [path |-> path, type |-> MInfo(x.m, path).type])]

\* Q.pop() takes the first item: the mutation of Pop
PopFirst(Q) == [item |-> Q[1], rest |-> SubSeq(Q, 2, Len(Q))]

\* Q.pop()
Pop(Q) == [item |-> Q[Len(Q)], rest |-> SubSeq(Q, 1, Len(Q) - 1)]

InitWalk ==
  /\ IdleStores /\ dc = <<>> /\ now = 0 /\ wc = <<>> /\ br = <<>> /\ mp = <<>>
  /\ ax \in {[m |-> Grow(MemoryInit, k, WkPaths \ {<<>>}), root |-> r, dirfirst |-> d,
              pc |-> "new", Q |-> <<>>, out |-> <<>>] :
               k \in WkShapes, r \in WkPaths, d \in BOOLEAN}

WkStep(x) == ax' = x /\ UNCHANGED <<storeVars, dc, now, wc, br, mp>>

\* the generator up to its loop
WkStart ==
  /\ ax.pc = "new"
  /\ IF MInfo(ax.m, ax.root).err # "ok" THEN WkStep([ax EXCEPT !.pc = "raised"])
     ELSE IF MInfo(ax.m, ax.root).type = "directory"
     THEN \E l \in Listings(MLs(ax.m, ax.root).names) :
            WkStep([(IF ax.dirfirst THEN Yield(ax, ax.root) ELSE ax) EXCEPT
                      !.pc = "loop",
                      !.Q = (IF ax.dirfirst THEN <<>>
                             ELSE << [path |-> ax.root, empty |-> TRUE] >>)
                            \o Children(ax.root, l)])
     ELSE WkStep([Yield(ax, ax.root) EXCEPT !.pc = "done"])

\* one turn of `while Q`
WkLoop ==
  /\ ax.pc = "loop" /\ ax.Q # <<>>
  /\ LET p == Pop(ax.Q).item.path
         empty == Pop(ax.Q).item.empty
         x == [ax EXCEPT !.Q = Pop(ax.Q).rest]
     IN IF MInfo(ax.m, p).type = "file" THEN WkStep(Yield(x, p))
        ELSE IF empty THEN WkStep(Yield(x, p))
        ELSE \E l \in Listings(MLs(ax.m, p).names) :
               WkStep([(IF ax.dirfirst THEN Yield(x, p) ELSE x) EXCEPT
                         !.Q = @ \o (IF ax.dirfirst THEN <<>>
                                     ELSE << [path |-> p, empty |-> TRUE] >>)
                                 \o Children(p, l)])

\* Q is empty: the generator is exhausted
WkEnd ==
  /\ ax.pc = "loop" /\ ax.Q = <<>>
  /\ WkStep([ax EXCEPT !.pc = "done"])

NextWalk ==
  \/ WkStart
  \/ WkLoop
  \/ WkEnd

SpecWalk == InitWalk /\ [][NextWalk]_vars

\* the caller iterates the generator until it is exhausted
FairWalk == SpecWalk /\ WF_vars(NextWalk)

\* the paths of the subtree of the root
Subtree(x) == {q \in DOMAIN x.m.inodes : IsPrefix(x.root, q)}

WalkOver == ax.pc \in {"done", "raised"}

\* what a finished walk has yielded: every path of the subtree once, each
\* with its type, and a directory on the side of its contents that dirfirst
\* asks for
WalkRight ==
  ax.pc = "done" =>
    /\ {ax.out[i].path : i \in 1..Len(ax.out)} = Subtree(ax)
    /\ \A i, j \in 1..Len(ax.out) :
         /\ ax.out[i].path = ax.out[j].path => i = j
         /\ (i # j /\ ax.out[i].type = "directory"
               /\ IsPrefix(ax.out[i].path, ax.out[j].path)) =>
              IF ax.dirfirst THEN i < j ELSE i > j
    /\ \A i \in 1..Len(ax.out) : ax.out[i].type = MInfo(ax.m, ax.out[i].path).type

\* C31: walk(store, root, dirfirst) over a tree nobody changes comes to an end
\* and has then yielded every file and directory of the subtree of root
\* exactly once, every directory before all of its contents when dirfirst is
\* true and after all of them when it is false.
C31_WalkComplete == []WalkRight /\ <>WalkOver

\* a walk with dirfirst false of a root that holds a directory with a file in
\* it is over
C31_Witness ==
  /\ ax.pc = "done" /\ ~ ax.dirfirst /\ ax.root = <<>>
  /\ \E q \in Subtree(ax) : Len(q) = 2 /\ MInfo(ax.m, q).type = "file"

----------------------------------------------------------------------------
(* ufs.access.shutil.move and movefile within one Memory store.  ax is
   [before, m, op, src, dst, err]: the store before the call, the store
   after it, the call and the exception it raised. *)

MvNames == {"a", "ab"}

MvPaths == SeqsUpTo(MvNames, MvMaxDepth)

\* the characters of a name
Chars(name) ==
  CASE name = "a" -> <<"a">>
    [] name = "b" -> <<"b">>
    [] name = "ab" -> <<"a", "b">>

RECURSIVE Str(_)
\* str(path)
Str(path) ==
  IF path = <<>> THEN <<"/">>
  ELSE IF Len(path) = 1 THEN <<"/">> \o Chars(path[1])
  ELSE Str(SubSeq(path, 1, Len(path) - 1)) \o <<"/">> \o Chars(path[Len(path)])

\* src lies on the way to dst, component by component: the mutation of In
OnTheWay(s, t) == s = <<"/">> \/ s = t \/ IsPrefix(s \o <<"/">>, t)

\* s in t, of two strings
In(s, t) == \E k \in 0..(Len(t) - Len(s)) : SubSeq(t, k + 1, k + Len(s)) = s

\* a file with one byte at path: open(path, 'wb'), write, close
PutFile(m, path, data) ==
  Bind(MOpen(m, path, "wb"), LAMBDA o :
    MClose(MWrite(o.m, o.ret, data).m, o.ret).m)

RECURSIVE MvGrow(_, _, _)
\* the store that holds the tree k, a file at depth d holding the byte d - 1
MvGrow(m, k, todo) ==
  IF todo = {} THEN m
  ELSE LET q == CHOOSE x \in todo : \A y \in todo : Len(x) <= Len(y)
       IN MvGrow(CASE k[q] = "directory" -> MMkdir(m, q).m
                   [] k[q] = "file" -> PutFile(m, q, <<Len(q) - 1>>)
                   [] OTHER -> m,
                 k, todo \ {q})

MvShapes ==
  {k \in [MvPaths \ {<<>>} -> WkKinds] :
     \A q \in MvPaths \ {<<>>} :
       (k[q] # "none" /\ Len(q) > 1) => k[pathparent(q)] = "directory"}

Throw(m, e) == [m |-> m, err |-> e]

\* the paths of m at and below path
Below(m, path) == {q \in DOMAIN m.inodes : IsPrefix(path, q)}

RECURSIVE CopyTreeLoop(_, _, _, _)
\* copytree: the loop over walk(src, dirfirst=True), todo what walk has not
\* yielded yet; a directory comes before what is inside it
CopyTreeLoop(m, src, dst, todo) ==
  IF todo = {} THEN Throw(m, "ok")
  ELSE Bind(CHOOSE x \in todo : \A y \in todo : Len(x) <= Len(y), LAMBDA q :
         Bind(IF Inode(m, q).type = "directory" THEN MMkdir(m, Rebase(q, src, dst))
              ELSE MCopy(m, q, Rebase(q, src, dst)), LAMBDA r :
           IF r.err # "ok" THEN Throw(r.m, r.err)
           ELSE CopyTreeLoop(r.m, src, dst, todo \ {q})))

\* shutil.copy within one store
ShCopy(m, src, dst) ==
  IF MInfo(m, src).err # "ok" THEN Throw(m, MInfo(m, src).err)
  ELSE Bind(IF MInfo(m, dst).err = "ok" /\ MInfo(m, dst).type = "directory"
            THEN Append(dst, pathname(src)) ELSE dst, LAMBDA to :
         IF MInfo(m, src).type = "directory"
         THEN CopyTreeLoop(m, src, to, Below(m, src))
         ELSE Bind(MCopy(m, src, to), LAMBDA r : Throw(r.m, r.err)))

RECURSIVE RmTreeLoop(_, _)
\* rmtree: the loop over walk(path, dirfirst=False); a directory comes after
\* what is inside it
RmTreeLoop(m, todo) ==
  IF todo = {} THEN Throw(m, "ok")
  ELSE Bind(CHOOSE x \in todo : \A y \in todo : Len(x) >= Len(y), LAMBDA q :
         Bind(IF Inode(m, q).type = "directory" THEN MRmdir(m, q) ELSE MUnlink(m, q),
              LAMBDA r :
           IF r.err # "ok" THEN Throw(r.m, r.err)
           ELSE RmTreeLoop(r.m, todo \ {q})))

rmtree(m, path) ==
  IF MInfo(m, path).err # "ok" THEN Throw(m, MInfo(m, path).err)
  ELSE RmTreeLoop(m, Below(m, path))

\* shutil.move with src_ufs is dst_ufs
move(m, src, dst) ==
  IF In(Str(src), Str(dst)) THEN Throw(m, "RuntimeError")
  ELSE Bind(ShCopy(m, src, dst), LAMBDA c :
         IF c.err # "ok" THEN c ELSE rmtree(c.m, src))

\* the body of movefile with src_ufs is dst_ufs
MoveFile(m, src, dst) ==
  IF In(Str(src), Str(dst)) THEN Throw(m, "RuntimeError")
  ELSE Bind(MRename(m, src, dst), LAMBDA r : Throw(r.m, r.err))

InitMove ==
  /\ IdleStores /\ dc = <<>> /\ now = 0 /\ wc = <<>> /\ br = <<>> /\ mp = <<>>
  /\ ax \in {[before |-> MvGrow(MemoryInit, k, MvPaths \ {<<>>}),
              m |-> MvGrow(MemoryInit, k, MvPaths \ {<<>>}),
              op |-> "none", src |-> <<>>, dst |-> <<>>, err |-> "ok"] : k \in MvShapes}

MvDone(op, src, dst, r) ==
  /\ ax' = [ax EXCEPT !.m = r.m, !.op = op, !.src = src, !.dst = dst, !.err = r.err]
  /\ UNCHANGED <<storeVars, dc, now, wc, br, mp>>

MvMove ==
  /\ ax.op = "none"
  /\ \E src \in MvPaths, dst \in MvPaths : MvDone("move", src, dst, move(ax.m, src, dst))

MvMoveFile ==
  /\ ax.op = "none"
  /\ \E src \in MvPaths, dst \in MvPaths :
       MvDone("movefile", src, dst, MoveFile(ax.m, src, dst))

NextMove ==
  \/ MvMove
  \/ MvMoveFile

SpecMove == InitMove /\ [][NextMove]_vars

\* what is at and below a path: the type and content at every relative path
TreeAt(m, path) ==
  [rel \in {SubSeq(q, Len(path) + 1, Len(q)) : q \in Below(m, path)} |->
     [type |-> Inode(m, path \o rel).type, content |-> Inode(m, path \o rel).content]]

\* what movefile moves is a file, what move moves is a file or a directory
Movable(x) ==
  /\ x.src \in DOMAIN x.before.inodes /\ x.src # <<>>
  /\ x.op = "movefile" => Inode(x.before, x.src).type = "file"

\* dst is a free name in a directory there is
FreeDst(x) ==
  /\ x.dst # <<>> /\ x.dst \notin DOMAIN x.before.inodes
  /\ pathparent(x.dst) \in DOMAIN x.before.dirs

\* C32: move and movefile within one store raise and leave the store as it
\* was when dst is src or lies under src component by component, and for
\* every other free dst in a directory there is they move what is at src:
\* afterwards nothing is at src and dst holds what src held.
C32_RefusesExactlyNesting ==
  (ax.op # "none" /\ Movable(ax)) =>
    /\ IsPrefix(ax.src, ax.dst) => (ax.err = "RuntimeError" /\ ax.m = ax.before)
    /\ (~ IsPrefix(ax.src, ax.dst) /\ FreeDst(ax)) =>
         /\ ax.err = "ok"
         /\ Below(ax.m, ax.src) = {}
         /\ TreeAt(ax.m, ax.dst) = TreeAt(ax.before, ax.src)

----------------------------------------------------------------------------
(* ufs.access.ffuse.ffuse_mount: a Memory store mounted by copying it into a
   directory, a Local store.  ax is [ufs, scratch, pc, before, edits, atstop,
   retyped, err]. *)

\* the operations of a store of either kind: "M" a Memory, "L" a Local
SInfo(k, m, path) == IF k = "L" THEN LInfo(m, path) ELSE MInfo(m, path)
SOpen(k, m, path, mode) == IF k = "L" THEN LOpen(m, path, mode) ELSE MOpen(m, path, mode)
SRead(k, m, fd, amnt) == IF k = "L" THEN LRead(m, fd, amnt) ELSE MRead(m, fd, amnt)
SWrite(k, m, fd, data) == IF k = "L" THEN LWrite(m, fd, data) ELSE MWrite(m, fd, data)
SClose(k, m, fd) == IF k = "L" THEN LClose(m, fd) ELSE MClose(m, fd)
SMkdir(k, m, path) == IF k = "L" THEN LMkdir(m, path) ELSE MMkdir(m, path)
SUnlink(k, m, path) == IF k = "L" THEN LUnlink(m, path) ELSE MUnlink(m, path)
SRmdir(k, m, path) == IF k = "L" THEN LRmdir(m, path) ELSE MRmdir(m, path)

Both(s, d, e) == [src |-> s, dst |-> d, err |-> e]

RECURSIVE ChunkLoop(_, _, _, _, _, _)
\* while buf := src_ufs.read(src_fd, CHUNK_SIZE): dst_ufs.write(dst_fd, buf)
ChunkLoop(sk, s, sfd, dk, d, dfd) ==
  Bind(SRead(sk, s, sfd, CHUNK_SIZE), LAMBDA r :
    IF r.err # "ok" THEN Both(r.m, d, r.err)
    ELSE IF r.data = <<>> THEN Both(r.m, d, "ok")
    ELSE Bind(SWrite(dk, d, dfd, r.data), LAMBDA w :
           IF w.err # "ok" THEN Both(r.m, w.m, w.err)
           ELSE ChunkLoop(sk, r.m, sfd, dk, w.m, dfd)))

\* shutil.copyfile between two stores
CrossCopyFile(sk, s, dk, d, path) ==
  Bind(SOpen(sk, s, path, "rb"), LAMBDA o1 :
    IF o1.err # "ok" THEN Both(o1.m, d, o1.err) ELSE
    Bind(SOpen(dk, d, path, "wb"), LAMBDA o2 :
      IF o2.err # "ok" THEN Both(o1.m, o2.m, o2.err) ELSE
      Bind(ChunkLoop(sk, o1.m, o1.ret, dk, o2.m, o2.ret), LAMBDA l :
        IF l.err # "ok" THEN l ELSE
        Bind(SClose(dk, l.dst, o2.ret), LAMBDA c1 :
          IF c1.err # "ok" THEN Both(l.src, c1.m, c1.err) ELSE
          Bind(SClose(sk, l.src, o1.ret), LAMBDA c2 : Both(c2.m, c1.m, c2.err))))))

RECURSIVE CrossCopyTree(_, _, _, _, _)
\* copytree(src_ufs, root, dst_ufs, root, exists_ok=True): the loop over
\* walk(src_ufs, root, dirfirst=True), todo what walk has not yielded yet
CrossCopyTree(sk, s, dk, d, todo) ==
  IF todo = {} THEN Both(s, d, "ok")
  ELSE Bind(CHOOSE x \in todo : \A y \in todo : Len(x) <= Len(y), LAMBDA q :
         IF Inode(s, q).type = "directory"
         THEN Bind(SMkdir(dk, d, q), LAMBDA r :
                IF r.err \notin {"ok", "FileExistsError"} THEN Both(s, r.m, r.err)
                ELSE CrossCopyTree(sk, s, dk, r.m, todo \ {q}))
         ELSE Bind(CrossCopyFile(sk, s, dk, d, q), LAMBDA r :
                IF r.err # "ok" THEN r
                ELSE CrossCopyTree(sk, r.src, dk, r.dst, todo \ {q})))

\* dict(walk(mount_dir_ufs, root, dirfirst=False)), the info cut to the type
Snapshot(m) == [q \in DOMAIN m.inodes |-> Inode(m, q).type]

RECURSIVE RemoveLoop(_, _, _)
\* for path in (before.keys() - after.keys()), in the order the set gives
RemoveLoop(u, before, order) ==
  IF order = <<>> THEN Throw(u, "ok")
  ELSE Bind(IF before[order[1]] = "file" THEN MUnlink(u, order[1])
            ELSE MRmdir(u, order[1]), LAMBDA r :
         IF r.err # "ok" THEN Throw(r.m, r.err)
         ELSE RemoveLoop(r.m, before, SubSeq(order, 2, Len(order))))

RECURSIVE RmTreeLocal(_, _)
\* rmtree over a Local store: the loop over walk(path, dirfirst=False)
RmTreeLocal(m, todo) ==
  IF todo = {} THEN Throw(m, "ok")
  ELSE Bind(CHOOSE x \in todo : \A y \in todo : Len(x) >= Len(y), LAMBDA q :
         Bind(IF Inode(m, q).type = "directory" THEN LRmdir(m, q) ELSE LUnlink(m, q),
              LAMBDA r :
           IF r.err # "ok" THEN Throw(r.m, r.err)
           ELSE RmTreeLocal(r.m, todo \ {q})))

\* rmtree(mount_dir_ufs, root, omit_root=True)
EmptyOut(m) == RmTreeLocal(m, DOMAIN m.inodes \ {<<>>})

FfPaths == {q \in SeqsUpTo(Names, FfMaxDepth) : \A i \in 2..Len(q) : q[i] = "a"}

FfShapes ==
  {k \in [FfPaths \ {<<>>} -> WkKinds] :
     \A q \in FfPaths \ {<<>>} :
       (k[q] # "none" /\ Len(q) > 1) => k[pathparent(q)] = "directory"}

InitFF ==
  /\ IdleStores /\ dc = <<>> /\ now = 0 /\ wc = <<>> /\ br = <<>> /\ mp = <<>>
  /\ ax \in {[ufs |-> MvGrow(MemoryInit, k, FfPaths \ {<<>>}), scratch |-> LocalInit,
              pc |-> "new", before |-> <<>>, edits |-> 0, atstop |-> <<>>,
              retyped |-> FALSE, err |-> "ok"] : k \in FfShapes}

FfStep(x) == ax' = x /\ UNCHANGED <<storeVars, dc, now, wc, br, mp>>

\* ffuse_mount up to its yield
Mounted(x) ==
  Bind(CrossCopyTree("M", x.ufs, "L", x.scratch, DOMAIN x.ufs.inodes), LAMBDA c :
    [x EXCEPT !.ufs = c.src, !.scratch = c.dst, !.err = c.err,
              !.pc = IF c.err = "ok" THEN "mounted" ELSE "raised",
              !.before = Snapshot(c.dst)])

FfStart ==
  /\ ax.pc = "new"
  /\ FfStep(Mounted(ax))

\* a change of the mount directory: a file or an empty directory removed, a
\* directory made, a file written
Edited(m, q, what) ==
  CASE what = "unlink" -> LUnlink(m, q)
    [] what = "rmdir" -> LRmdir(m, q)
    [] what = "mkdir" -> LMkdir(m, q)
    [] what = "write" ->
         Bind(LOpen(m, q, "wb"), LAMBDA o :
           IF o.err # "ok" THEN o ELSE LClose(LWrite(o.m, o.ret, <<1>>).m, o.ret))

\* somebody changes the mount directory
FfEdit ==
  /\ ax.pc = "mounted" /\ ax.edits < FfMaxEdits
  /\ \E q \in FfPaths \ {<<>>}, what \in {"unlink", "rmdir", "mkdir", "write"} :
       /\ Edited(ax.scratch, q, what).err = "ok"
       /\ FfStep([ax EXCEPT !.scratch = Edited(ax.scratch, q, what).m, !.edits = @ + 1])

\* the finally block of ffuse_mount, readonly false, the removed paths
\* visited in the given order
Unmounted(x0, order) ==
  Bind([x0 EXCEPT !.atstop = TreeAt(x0.scratch, <<>>),
                  !.retyped = \E q \in DOMAIN x0.before \cap DOMAIN x0.scratch.inodes :
                                x0.before[q] # Inode(x0.scratch, q).type,
                  !.pc = "raised"], LAMBDA x :
    Bind(RemoveLoop(x.ufs, x.before, order), LAMBDA r :
      IF r.err # "ok" THEN [x EXCEPT !.ufs = r.m, !.err = r.err]
      ELSE Bind(CrossCopyTree("L", x.scratch, "M", r.m, DOMAIN x.scratch.inodes),
                LAMBDA c :
             IF c.err # "ok"
             THEN [x EXCEPT !.ufs = c.dst, !.scratch = c.src, !.err = c.err]
             ELSE Bind(EmptyOut(c.src), LAMBDA e :
                    [x EXCEPT !.ufs = c.dst, !.scratch = e.m, !.err = e.err,
                              !.pc = IF e.err = "ok" THEN "stopped" ELSE "raised"]))))

FfStop ==
  /\ ax.pc = "mounted"
  /\ \E order \in Listings(DOMAIN ax.before \ DOMAIN ax.scratch.inodes) :
       FfStep(Unmounted(ax, order))

NextFF ==
  \/ FfStart
  \/ FfEdit
  \/ FfStop

SpecFF == InitFF /\ [][NextFF]_vars

\* C33: when a mount that is not readonly stops, and nothing in the mount
\* directory has changed from file to directory or back, the stop raises
\* nothing, the store holds exactly the tree the mount directory held at the
\* stop, whatever was removed and in whatever order the removed paths are
\* visited, and the mount directory is empty.
C33_StopSyncsBack ==
  (ax.pc \in {"stopped", "raised"} /\ ax.before # <<>> /\ ~ ax.retyped) =>
    /\ ax.pc = "stopped"
    /\ TreeAt(ax.ufs, <<>>) = ax.atstop
    /\ DOMAIN ax.scratch.inodes = {<<>>}

\* ---------------------------------------------------------------------
\* ufs.access.os: the os-shaped adapter UOS over a store
\* ---------------------------------------------------------------------

SLs(k, m, path) == IF k = "L" THEN LLs(m, path) ELSE MLs(m, path)
SSeek(k, m, fd, pos) == IF k = "L" THEN LSeek(m, fd, pos) ELSE MSeek(m, fd, pos, 0)
STruncate(k, m, fd, length) ==
  IF k = "L" THEN LTruncate(m, fd, length) ELSE MTruncate(m, fd, length)
SRename(k, m, src, dst) == IF k = "L" THEN LRename(m, src, dst) ELSE MRename(m, src, dst)

\* the errno an OSError raised by the store carries itself
OwnErrno(exc) ==
  CASE exc = "OSError(ENOTEMPTY)" -> "ENOTEMPTY"
    [] exc = "OSError(EINVAL)" -> "EINVAL"
    [] exc = "OSError(EBUSY)" -> "EBUSY"
    [] OTHER -> "None"

IsOSError(exc) ==
  exc \in {"OSError(ENOTEMPTY)", "OSError(EINVAL)", "OSError(EBUSY)", "UnsupportedOperation"}

\* the except clauses every operation but rename runs under
oserror(exc) ==
  CASE exc = "FileNotFoundError" -> "ENOENT"
    [] exc = "FileExistsError" -> "EEXIST"
    [] exc = "NotADirectoryError" -> "ENOTDIR"
    [] exc = "IsADirectoryError" -> "EISDIR"
    [] exc = "PermissionError" -> "EPERM"
    [] IsOSError(exc) -> OwnErrno(exc)
    [] exc = "NotImplementedError" -> "ENOTSUP"
    [] OTHER -> "EROFS"

\* the except clauses of UOS.rename
rename_error(exc) ==
  CASE exc = "FileNotFoundError" -> "ENOENT"
    [] exc = "FileExistsError" -> "EEXIST"
    [] exc = "NotADirectoryError" -> "ENOTDIR"
    [] exc = "IsADirectoryError" -> "EISDIR"
    [] exc = "PermissionError" -> "EPERM"
    [] OTHER -> "ENOTSUP"

\* what a call of the adapter leaves: the store, the exception of the store,
\* the errno of the OSError the caller sees, and the value returned
OsOut(m, exc, errno, ret, data, names) ==
  [m |-> m, exc |-> exc, errno |-> errno, ret |-> ret, data |-> data, names |-> names]

\* the body of `with oserror(path):` that is one call on the store
Under(r) ==
  OsOut(r.m, r.err, IF r.err = "ok" THEN "ok" ELSE oserror(r.err), r.ret, r.data, {})

O_Flags == {"O_WRONLY", "O_RDWR", "O_APPEND", "O_TRUNC"}

\* the mode UOS.open passes on for the flags
OpenMode(flags) ==
  IF "O_TRUNC" \in flags THEN "wb"
  ELSE IF "O_APPEND" \in flags THEN (IF "O_RDWR" \in flags THEN "ab+" ELSE "ab")
  ELSE IF "O_RDWR" \in flags THEN "rb+"
  ELSE IF "O_WRONLY" \in flags THEN "wb"
  ELSE "rb"

UosOpen(k, m, path, flags) == Under(SOpen(k, m, path, OpenMode(flags)))
UosLseek(k, m, fd, pos) == Under(SSeek(k, m, fd, pos))
UosRead(k, m, fd, length) == Under(SRead(k, m, fd, length))
UosWrite(k, m, fd, data) == Under(SWrite(k, m, fd, data))
UosClose(k, m, fd) == Under(SClose(k, m, fd))
UosMkdir(k, m, path) == Under(SMkdir(k, m, path))
UosRmdir(k, m, path) == Under(SRmdir(k, m, path))
UosUnlink(k, m, path) == Under(SUnlink(k, m, path))

\* UOS.stat: info, and ls for the link count of a directory
UosStat(k, m, path) ==
  Bind(SInfo(k, m, path), LAMBDA i :
    IF i.err # "ok" THEN OsOut(m, i.err, oserror(i.err), NoRet, <<>>, {})
    ELSE IF i.type = "directory"
      THEN Bind(SLs(k, m, path), LAMBDA l :
             IF l.err # "ok" THEN OsOut(m, l.err, oserror(l.err), NoRet, <<>>, {})
             ELSE OsOut(m, "ok", "ok", 0, <<>>, l.names))
    ELSE OsOut(m, "ok", "ok", i.size, <<>>, {}))

UosListdir(k, m, path) ==
  Bind(SLs(k, m, path), LAMBDA l :
    OsOut(m, l.err, IF l.err = "ok" THEN "ok" ELSE oserror(l.err), NoRet, <<>>, l.names))

UosRename(k, m, src, dst) ==
  Bind(SRename(k, m, src, dst), LAMBDA r :
    OsOut(r.m, r.err, IF r.err = "ok" THEN "ok" ELSE rename_error(r.err), NoRet, <<>>, {}))

\* UOS.truncate of a path: open 'rb+', truncate, close
UosTruncate(k, m, path, length) ==
  Bind(SOpen(k, m, path, "rb+"), LAMBDA o :
    IF o.err # "ok" THEN Under(o)
    ELSE Bind(STruncate(k, o.m, o.ret, length), LAMBDA t :
           IF t.err # "ok" THEN Under(t) ELSE Under(SClose(k, t.m, o.ret))))

\* UOS.symlink
UosSymlink(k, m, src, dst) == Under(Raise(m, "NotImplementedError"))

\* ---------------------------------------------------------------------
\* ufs.access.fuse: FUSEOps over UOS over a Memory store
\* ---------------------------------------------------------------------

\* `if self._readonly: raise PermissionError(errno.EPERM, ...)`; fuseerror
\* hands the errno of an OSError on as it is
ReadonlyGuard(readonly, m, o) ==
  IF readonly THEN OsOut(m, "PermissionError", "EPERM", NoRet, <<>>, {}) ELSE o

FuseCreate(readonly, m, path) ==
  ReadonlyGuard(readonly, m, UosOpen("M", m, path, {"O_WRONLY", "O_CREAT", "O_TRUNC"}))
FuseMkdir(readonly, m, path) == ReadonlyGuard(readonly, m, UosMkdir("M", m, path))
FuseRmdir(readonly, m, path) == ReadonlyGuard(readonly, m, UosRmdir("M", m, path))
FuseUnlink(readonly, m, path) == ReadonlyGuard(readonly, m, UosUnlink("M", m, path))
FuseRename(readonly, m, old, new) ==
  ReadonlyGuard(readonly, m, UosRename("M", m, old, new))
FuseTruncate(readonly, m, path, length) ==
  ReadonlyGuard(readonly, m, UosTruncate("M", m, path, length))

FuseOpen(readonly, m, path, flags) == UosOpen("M", m, path, flags)
FuseSymlink(readonly, m, target, source) == UosSymlink("M", m, source, target)
FuseRelease(readonly, m, fh) == UosClose("M", m, fh)
FuseGetattr(readonly, m, path) == UosStat("M", m, path)
FuseReaddir(readonly, m, path) == UosListdir("M", m, path)

\* FUSEOps.read: lseek to the offset, then read
FuseRead(readonly, m, size, offset, fh) ==
  Bind(UosLseek("M", m, fh, offset), LAMBDA l :
    IF l.errno # "ok" THEN l ELSE UosRead("M", l.m, fh, size))

\* FUSEOps.write: lseek to the offset, then write
FuseWrite(readonly, m, data, offset, fh) ==
  Bind(UosLseek("M", m, fh, offset), LAMBDA l :
    IF l.errno # "ok" THEN l ELSE UosWrite("M", l.m, fh, data))

FuPaths == {<<"a">>, <<"b">>, <<"a", "a">>}

FuShapes ==
  {k \in [FfPaths \ {<<>>} -> WkKinds] :
     /\ k[<<"b", "a">>] = "none" /\ k[<<"b">>] # "directory"
     /\ k[<<"a", "a">>] # "none" => k[<<"a">>] = "directory"}

FuFlags == {{}, {"O_WRONLY"}, {"O_RDWR"}, {"O_APPEND"}, {"O_TRUNC"}}

\* the mount: the store, the store as it was at the mount, the readonly
\* switch, the last operation and the errno it gave
InitFuse ==
  /\ IdleStores /\ dc = <<>> /\ now = 0 /\ wc = <<>> /\ br = <<>> /\ mp = <<>>
  /\ ax \in {[ufs |-> MvGrow(MemoryInit, k, FfPaths \ {<<>>}),
              first |-> MvGrow(MemoryInit, k, FfPaths \ {<<>>}),
              readonly |-> ro, op |-> "mount", errno |-> "ok", n |-> 0] :
               k \in FuShapes, ro \in BOOLEAN}

FuAfter(op, o) ==
  ax' = [ax EXCEPT !.ufs = o.m, !.op = op, !.errno = o.errno, !.n = @ + 1]

FuFits == ax.n < FuMaxCalls

FuHandles == DOMAIN ax.ufs.fds \cup {ax.ufs.cfd}

FuOthers == UNCHANGED <<storeVars, dc, now, wc, br, mp>>

FuCreate ==
  /\ FuFits /\ FuOthers
  /\ \E path \in FuPaths : FuAfter("create", FuseCreate(ax.readonly, ax.ufs, path))
FuMkdir ==
  /\ FuFits /\ FuOthers
  /\ \E path \in FuPaths : FuAfter("mkdir", FuseMkdir(ax.readonly, ax.ufs, path))
FuRmdir ==
  /\ FuFits /\ FuOthers
  /\ \E path \in FuPaths : FuAfter("rmdir", FuseRmdir(ax.readonly, ax.ufs, path))
FuUnlink ==
  /\ FuFits /\ FuOthers
  /\ \E path \in FuPaths : FuAfter("unlink", FuseUnlink(ax.readonly, ax.ufs, path))
FuRename ==
  /\ FuFits /\ FuOthers
  /\ \E old \in FuPaths, new \in FuPaths :
       old # new /\ FuAfter("rename", FuseRename(ax.readonly, ax.ufs, old, new))
FuTruncate ==
  /\ FuFits /\ FuOthers
  /\ \E path \in FuPaths, length \in 0..FuMaxLen :
       FuAfter("truncate", FuseTruncate(ax.readonly, ax.ufs, path, length))
FuOpen ==
  /\ FuFits /\ FuOthers
  /\ \E path \in FuPaths, flags \in FuFlags :
       FuAfter("open", FuseOpen(ax.readonly, ax.ufs, path, flags))
FuSymlink ==
  /\ FuFits /\ FuOthers
  /\ \E target \in FuPaths, source \in FuPaths :
       FuAfter("symlink", FuseSymlink(ax.readonly, ax.ufs, target, source))
FuRelease ==
  /\ FuFits /\ FuOthers
  /\ \E fh \in FuHandles : FuAfter("release", FuseRelease(ax.readonly, ax.ufs, fh))
FuGetattr ==
  /\ FuFits /\ FuOthers
  /\ \E path \in FuPaths : FuAfter("getattr", FuseGetattr(ax.readonly, ax.ufs, path))
FuReaddir ==
  /\ FuFits /\ FuOthers
  /\ \E path \in FuPaths : FuAfter("readdir", FuseReaddir(ax.readonly, ax.ufs, path))
FuRead ==
  /\ FuFits /\ FuOthers
  /\ \E fh \in FuHandles, offset \in 0..1 :
       FuAfter("read", FuseRead(ax.readonly, ax.ufs, 1, offset, fh))
FuWrite ==
  /\ FuFits /\ FuOthers
  /\ \E fh \in FuHandles, offset \in 0..1 :
       FuAfter("write", FuseWrite(ax.readonly, ax.ufs, <<7>>, offset, fh))

NextFuse ==
  \/ FuCreate \/ FuMkdir \/ FuRmdir \/ FuUnlink \/ FuRename \/ FuTruncate
  \/ FuOpen \/ FuSymlink \/ FuRelease \/ FuGetattr \/ FuReaddir \/ FuRead \/ FuWrite

SpecFuse == InitFuse /\ [][NextFuse]_vars

\* what the store shows of itself: the type, size and content of every path
Visible(m) ==
  [q \in DOMAIN m.inodes |->
     [type |-> Inode(m, q).type, size |-> Inode(m, q).size,
      content |-> Inode(m, q).content]]

FuWriteOps ==
  {"create", "mkdir", "rmdir", "unlink", "rename", "truncate", "symlink", "write"}

\* C34: on a readonly mount no sequence of FUSE operations changes the
\* content, the size or the listing of the store, and every write
\* operation is answered with EPERM
C34_ReadonlyKeepsStore ==
  ax.readonly =>
    /\ Visible(ax.ufs) = Visible(ax.first)
    /\ ax.op \in FuWriteOps => ax.errno = "EPERM"

\* ---------------------------------------------------------------------
\* UOS over a Memory or a Local store: the errno of every call
\* ---------------------------------------------------------------------

RECURSIVE OsGrow(_, _, _, _)
\* the store of kind k that holds the tree shape
OsGrow(k, m, shape, todo) ==
  IF todo = {} THEN m
  ELSE LET q == CHOOSE x \in todo : \A y \in todo : Len(x) <= Len(y)
       IN OsGrow(k,
                 CASE shape[q] = "directory" -> SMkdir(k, m, q).m
                   [] shape[q] = "file" ->
                        Bind(SOpen(k, m, q, "wb"), LAMBDA o :
                          SClose(k, SWrite(k, o.m, o.ret, <<Len(q)>>).m, o.ret).m)
                   [] OTHER -> m,
                 shape, todo \ {q})

\* the adapter: the kind of store, the store, the last call, the exception
\* the store raised in it and the errno the caller saw
InitOS ==
  /\ IdleStores /\ dc = <<>> /\ now = 0 /\ wc = <<>> /\ br = <<>> /\ mp = <<>>
  /\ ax \in {[k |-> k, ufs |-> OsGrow(k, MemoryInit, shape, FfPaths \ {<<>>}),
              op |-> "new", exc |-> "ok", errno |-> "ok", n |-> 0] :
               k \in {"M", "L"}, shape \in FuShapes}

OsAfter(op, o) ==
  ax' = [ax EXCEPT !.ufs = o.m, !.op = op, !.exc = o.exc, !.errno = o.errno, !.n = @ + 1]

OsFits == ax.n < OsMaxCalls

OsHandles == DOMAIN ax.ufs.fds \cup {ax.ufs.cfd}

\* the handles the model of the store can seek
OsSeekable ==
  {fd \in OsHandles : ax.k = "L" /\ fd \in DOMAIN ax.ufs.fds => ax.ufs.fds[fd].mode = "rb"}

OsStat ==
  /\ OsFits /\ FuOthers
  /\ \E path \in FuPaths : OsAfter("stat", UosStat(ax.k, ax.ufs, path))
OsListdir ==
  /\ OsFits /\ FuOthers
  /\ \E path \in FuPaths : OsAfter("listdir", UosListdir(ax.k, ax.ufs, path))
OsOpen ==
  /\ OsFits /\ FuOthers
  /\ \E path \in FuPaths, flags \in FuFlags :
       /\ ax.k = "L" => OpenMode(flags) \in {"rb", "wb", "ab"}
       /\ OsAfter("open", UosOpen(ax.k, ax.ufs, path, flags))
OsLseek ==
  /\ OsFits /\ FuOthers
  /\ \E fd \in OsSeekable, pos \in {-1, 0, 1} :
       OsAfter("lseek", UosLseek(ax.k, ax.ufs, fd, pos))
OsRead ==
  /\ OsFits /\ FuOthers
  /\ \E fd \in OsHandles : OsAfter("read", UosRead(ax.k, ax.ufs, fd, 1))
OsWrite ==
  /\ OsFits /\ FuOthers
  /\ \E fd \in OsHandles : OsAfter("write", UosWrite(ax.k, ax.ufs, fd, <<7>>))
OsClose ==
  /\ OsFits /\ FuOthers
  /\ \E fd \in OsHandles : OsAfter("close", UosClose(ax.k, ax.ufs, fd))
OsMkdir ==
  /\ OsFits /\ FuOthers
  /\ \E path \in FuPaths : OsAfter("mkdir", UosMkdir(ax.k, ax.ufs, path))
OsRmdir ==
  /\ OsFits /\ FuOthers
  /\ \E path \in FuPaths : OsAfter("rmdir", UosRmdir(ax.k, ax.ufs, path))
OsUnlink ==
  /\ OsFits /\ FuOthers
  /\ \E path \in FuPaths : OsAfter("unlink", UosUnlink(ax.k, ax.ufs, path))
OsRename ==
  /\ OsFits /\ FuOthers
  /\ \E src \in FuPaths, dst \in FuPaths :
       src # dst /\ OsAfter("rename", UosRename(ax.k, ax.ufs, src, dst))
OsTruncate ==
  /\ OsFits /\ FuOthers /\ ax.k = "M"
  /\ \E path \in FuPaths, length \in {-1, 0, 1} :
       OsAfter("truncate", UosTruncate(ax.k, ax.ufs, path, length))
OsSymlink ==
  /\ OsFits /\ FuOthers
  /\ \E src \in FuPaths, dst \in FuPaths :
       OsAfter("symlink", UosSymlink(ax.k, ax.ufs, src, dst))

NextOS ==
  \/ OsStat \/ OsListdir \/ OsOpen \/ OsLseek \/ OsRead \/ OsWrite \/ OsClose
  \/ OsMkdir \/ OsRmdir \/ OsUnlink \/ OsRename \/ OsTruncate \/ OsSymlink

SpecOS == InitOS /\ [][NextOS]_vars

\* the kind of error the store raised: an OSError that carries an errno of
\* its own, other than ENOTEMPTY, is none of the kinds of the table
ErrorKind(op, exc) ==
  CASE exc = "FileNotFoundError" -> "NotFound"
    [] exc = "FileExistsError" -> "AlreadyExists"
    [] exc = "NotADirectoryError" -> "NotADirectory"
    [] exc = "IsADirectoryError" -> "IsADirectory"
    [] exc = "PermissionError" -> "PermissionDenied"
    [] exc = "NotImplementedError" -> "Unsupported"
    [] exc = "OSError(ENOTEMPTY)" -> "NotEmpty"
    [] exc = "RuntimeError" /\ op = "rmdir" -> "NotEmpty"
    [] IsOSError(exc) -> "Io"
    [] OTHER -> "Other"

ErrnoTable ==
  [NotFound |-> "ENOENT", AlreadyExists |-> "EEXIST", NotADirectory |-> "ENOTDIR",
   IsADirectory |-> "EISDIR", PermissionDenied |-> "EPERM", Unsupported |-> "ENOTSUP",
   NotEmpty |-> "ENOTEMPTY", Other |-> "EROFS"]

\* C35: whatever the operation, rename included, an error of the store
\* reaches the caller with the errno of the table: ENOENT, EEXIST, ENOTDIR,
\* EISDIR, EPERM, ENOTSUP, ENOTEMPTY for a directory that is not empty, and
\* EROFS for any other error
C35_ErrnoTable ==
  (ax.exc # "ok" /\ ErrorKind(ax.op, ax.exc) # "Io") =>
    ax.errno = ErrnoTable[ErrorKind(ax.op, ax.exc)]

\* ---------------------------------------------------------------------
\* ufs.utils.io: Buffer and BufferedBinaryIO over a raw handle
\* ---------------------------------------------------------------------

\* b'\n'
newline == 10

\* Buffer.trim
trim(b, pos) ==
  IF b.pos < pos THEN [b EXCEPT !.data = Slice(@, pos - b.pos, Len(@))]
  ELSE IF b.pos > pos THEN [b EXCEPT !.data = <<>>]
  ELSE b

\* Buffer.read: the buffer after it and the bytes it gave
BufferRead(b, amnt) ==
  Bind(IF amnt = -1 THEN b.data ELSE Slice(b.data, 0, amnt), LAMBDA ret :
    [b |-> [pos |-> b.pos + Len(ret), data |-> Slice(b.data, Len(ret), Len(b.data))],
     ret |-> ret])

\* Buffer.read_until: data.partition(delim)
read_until(b, delim) ==
  IF \A i \in 1..Len(b.data) : b.data[i] # delim
    THEN [b |-> [pos |-> b.pos + Len(b.data), data |-> <<>>], ret |-> b.data,
          found |-> FALSE]
  ELSE Bind(CHOOSE i \in 1..Len(b.data) :
              b.data[i] = delim /\ \A j \in 1..(i - 1) : b.data[j] # delim, LAMBDA i :
         [b |-> [pos |-> b.pos + i, data |-> Slice(b.data, i, Len(b.data))],
          ret |-> Slice(b.data, 0, i), found |-> TRUE])

\* BufferedBinaryIO.seek from the start of the file
BufSeek(x, amnt) ==
  [x EXCEPT !.rpos = amnt, !.pos = amnt, !.buf = trim(@, amnt)]

\* BufferedBinaryIO.read
BufRead(x, amnt) ==
  IF amnt = 0 THEN [x EXCEPT !.out = <<>>]
  ELSE Bind(BufferRead(x.buf, amnt), LAMBDA r :
         Bind(IF amnt = -1 THEN StreamRead(x.stream, x.rpos, -1)
              ELSE IF Len(r.ret) < amnt
                THEN StreamRead(x.stream, x.rpos, amnt - Len(r.ret))
              ELSE <<>>, LAMBDA more :
           [x EXCEPT !.buf = r.b, !.rpos = @ + Len(more),
                     !.pos = @ + Len(r.ret) + Len(more), !.out = r.ret \o more]))

\* BufferedBinaryIO.write
BufWrite(x, data) ==
  [x EXCEPT !.stream = StreamWrite(@, x.rpos, data), !.rpos = @ + Len(data),
            !.pos = @ + Len(data), !.out = <<>>]

RECURSIVE ReadlineLoop(_, _)
\* the loop of BufferedBinaryIO.readline, ret what it has gathered
ReadlineLoop(x, ret) ==
  Bind(read_until(x.buf, newline), LAMBDA r :
    IF r.found THEN [x EXCEPT !.buf = r.b, !.out = ret \o r.ret]
    ELSE Bind(StreamRead(x.stream, x.rpos, x.chunk), LAMBDA buf :
           IF buf = <<>> THEN [x EXCEPT !.buf = r.b, !.out = ret \o r.ret]
           ELSE ReadlineLoop([x EXCEPT !.buf = [r.b EXCEPT !.data = @ \o buf],
                                       !.rpos = @ + Len(buf)],
                             ret \o r.ret)))

\* BufferedBinaryIO.readline
BufReadline(x) ==
  Bind(ReadlineLoop(x, <<>>), LAMBDA y : [y EXCEPT !.pos = @ + Len(y.out)])

BfBytes == {newline, 7}

\* a handle fresh from UPath.open(mode 'rb+'): the bytes of the file and the
\* cursor of the raw handle, the offset and the read buffer of the buffered
\* one, then the last call, the offset a seek asked for and the bytes given
InitBuf ==
  /\ IdleStores /\ dc = <<>> /\ now = 0 /\ wc = <<>> /\ br = <<>> /\ mp = <<>>
  /\ ax \in {[stream |-> c, rpos |-> 0, pos |-> 0, buf |-> [pos |-> 0, data |-> <<>>],
              chunk |-> chunk, op |-> "open", sought |-> -1, out |-> <<>>, n |-> 0] :
               c \in SeqsUpTo(BfBytes, BfMaxLen), chunk \in {BfChunk, CHUNK_SIZE}}

BfFits == ax.n < BfMaxCalls

BfAfter(op, sought, x) ==
  ax' = [x EXCEPT !.op = op, !.sought = sought, !.n = @ + 1]

BfSeek ==
  /\ BfFits /\ FuOthers
  /\ \E k \in 0..Len(ax.stream) : BfAfter("seek", k, [BufSeek(ax, k) EXCEPT !.out = <<>>])
\* a read; when the call before it was a seek it is the read the seek is
\* judged by
BfRead ==
  /\ BfFits /\ FuOthers
  /\ \E amnt \in {-1, 1} :
       BfAfter(IF amnt = -1 THEN "readall" ELSE "read",
               IF ax.op = "seek" THEN ax.sought ELSE -1, BufRead(ax, amnt))
BfReadline ==
  /\ BfFits /\ FuOthers
  /\ BfAfter("readline", -1, BufReadline(ax))
BfWrite ==
  /\ BfFits /\ FuOthers /\ Len(ax.stream) < BfMaxLen
  /\ BfAfter("write", -1, BufWrite(ax, <<7>>))

NextBuf == BfSeek \/ BfRead \/ BfReadline \/ BfWrite

SpecBuf == InitBuf /\ [][NextBuf]_vars

\* a read() that came right after seek(k)
SoughtRead == ax.op = "readall" /\ ax.sought >= 0

\* C36: after any mix of read, readline and write, seek(k) followed by
\* read() gives the bytes of the file from offset k to its end, nothing
\* twice and nothing left out, and tell() is then the end of the file
C36_SeekThenRead ==
  SoughtRead =>
    /\ ax.out = Slice(ax.stream, ax.sought, Len(ax.stream))
    /\ ax.pos = Len(ax.stream)

\* ---------------------------------------------------------------------
\* ufs.utils.process: active_process, its helper thread and the process
\* ---------------------------------------------------------------------

ApKinds == {"Popen", "Process"}
ExitCodes == {0, 1}

\* active_process up to thread.start(): the queue, the main thread (where it
\* is, what leaves the with statement, whether a SIGINT waits for it), the
\* helper thread, and the process with its exit code
InitAP ==
  /\ IdleStores /\ dc = <<>> /\ now = 0 /\ wc = <<>> /\ br = <<>> /\ mp = <<>>
  /\ ax \in {[kind |-> kind, queue |-> <<>>, mpc |-> "put", result |-> "none",
              sigint |-> FALSE, late |-> FALSE, tpc |-> "get", exception |-> "none",
              proc |-> IF kind = "Popen" THEN "running" ELSE "unstarted",
              code |-> NoRet] : kind \in ApKinds}

ApStep(x) == ax' = x /\ FuOthers

\* the process ends by itself
ApExit ==
  /\ ax.proc = "running"
  /\ \E code \in ExitCodes : ApStep([ax EXCEPT !.proc = "exited", !.code = code])

\* the process ends on the terminate signal
ApDie ==
  /\ ax.proc = "signalled"
  /\ ApStep([ax EXCEPT !.proc = "exited", !.code = -15])

\* process_thread: proc = queue.get()
ThGet ==
  /\ ax.tpc = "get" /\ ax.queue # <<>>
  /\ ApStep([ax EXCEPT !.queue = Tail(@),
                       !.tpc = IF ax.kind = "Process" THEN "start" ELSE "wait"])

\* proc.start()
ThStart ==
  /\ ax.tpc = "start"
  /\ ApStep([ax EXCEPT !.proc = "running", !.tpc = "wait"])

\* proc.join() or proc.wait() returns; exception = ProcessExitException(code)
ThWait ==
  /\ ax.tpc = "wait" /\ ax.proc = "exited"
  /\ ApStep([ax EXCEPT !.tpc = "get_nowait", !.exception = "ProcessExitException"])

\* queue.get_nowait(): something there, taken; nothing there, Empty
ThGetNowait ==
  /\ ax.tpc = "get_nowait"
  /\ ApStep(IF ax.queue # <<>> THEN [ax EXCEPT !.queue = Tail(@), !.tpc = "done"]
            ELSE [ax EXCEPT !.tpc = "put"])

\* except Empty: queue.put(exception)
ThPut ==
  /\ ax.tpc = "put"
  /\ ApStep([ax EXCEPT !.queue = Append(@, ax.exception), !.tpc = "kill"])

\* os.kill(current_pid, signal.SIGINT)
ThKill ==
  /\ ax.tpc = "kill"
  /\ ApStep([ax EXCEPT !.sigint = TRUE, !.tpc = "done"])

\* active_process: queue.put(proc), then the body of the with statement
MainPut ==
  /\ ax.mpc = "put" /\ ~ax.sigint
  /\ ApStep([ax EXCEPT !.queue = Append(@, "proc"), !.mpc = "body"])

\* the body completes
MainBodyDone ==
  /\ ax.mpc = "body" /\ ~ax.sigint
  /\ ApStep([ax EXCEPT !.mpc = "fin_put", !.result = "ok"])

\* KeyboardInterrupt in the body: except KeyboardInterrupt takes what the
\* queue holds and raises it
MainExcept ==
  /\ ax.mpc = "body" /\ ax.sigint
  /\ ApStep(IF ax.queue # <<>>
            THEN [ax EXCEPT !.sigint = FALSE, !.queue = Tail(@), !.result = Head(ax.queue),
                            !.mpc = "fin_put"]
            ELSE [ax EXCEPT !.sigint = FALSE, !.result = "KeyboardInterrupt",
                            !.mpc = "fin_put"])

\* KeyboardInterrupt in the finally block: nothing catches it there
MainLate ==
  /\ ax.mpc \in {"fin_put", "fin_alive", "fin_wait", "join"} /\ ax.sigint
  /\ ApStep([ax EXCEPT !.sigint = FALSE, !.late = TRUE, !.result = "KeyboardInterrupt",
                       !.mpc = "out"])

\* finally: queue.put(None)
MainFinPut ==
  /\ ax.mpc = "fin_put" /\ ~ax.sigint
  /\ ApStep([ax EXCEPT !.queue = Append(@, "None"), !.mpc = "fin_alive"])

\* proc.is_alive() or proc.poll() is None, and os.kill(proc.pid, terminate_signal)
MainFinAlive ==
  /\ ax.mpc = "fin_alive" /\ ~ax.sigint
  /\ ApStep(IF ax.proc = "running" THEN [ax EXCEPT !.proc = "signalled", !.mpc = "fin_wait"]
            ELSE [ax EXCEPT !.mpc = "join"])

\* proc.join() or proc.wait() returns
MainFinWait ==
  /\ ax.mpc = "fin_wait" /\ ~ax.sigint /\ ax.proc = "exited"
  /\ ApStep([ax EXCEPT !.mpc = "join"])

\* thread.join() returns
MainJoin ==
  /\ ax.mpc = "join" /\ ~ax.sigint /\ ax.tpc = "done"
  /\ ApStep([ax EXCEPT !.mpc = "out"])

NextAP ==
  \/ ApExit \/ ApDie \/ ThGet \/ ThStart \/ ThWait \/ ThGetNowait \/ ThPut \/ ThKill
  \/ MainPut \/ MainBodyDone \/ MainExcept \/ MainLate \/ MainFinPut \/ MainFinAlive
  \/ MainFinWait \/ MainJoin

SpecAP == InitAP /\ [][NextAP]_vars

\* every step but the process ending by itself is taken when it can be
FairAP ==
  SpecAP /\ WF_vars(ApDie) /\ WF_vars(ThGet \/ ThStart \/ ThWait \/ ThGetNowait \/ ThPut \/ ThKill)
         /\ WF_vars(MainPut \/ MainBodyDone \/ MainExcept \/ MainLate \/ MainFinPut
                    \/ MainFinAlive \/ MainFinWait \/ MainJoin)

\* the with statement is left
ApOut == ax.mpc = "out"

\* the process ended during the body and its exception was raised there
ExitRaised ==
  /\ ax.result = "ProcessExitException" /\ ax.proc = "exited" /\ ax.code \in ExitCodes

\* the body completed, the process was terminated, the helper thread joined
BodyCompleted ==
  /\ ax.result = "ok" /\ ax.proc = "exited" /\ ax.tpc = "done"

\* C37: the with statement is left in one of two ways, the exit of the
\* process raised in the body, or the body completed with the process
\* terminated and the helper thread joined; no interrupt reaches the main
\* thread during or after the exit, and the helper thread has ended
C37_OneOutcome ==
  ApOut =>
    /\ ExitRaised \/ BodyCompleted
    /\ ~ax.late /\ ~ax.sigint
    /\ ax.tpc = "done"

\* ---------------------------------------------------------------------
\* Memory.copy and the handles on the two files
\* ---------------------------------------------------------------------

CpSrc == <<"a">>
CpDst == <<"b">>

\* a Memory store with a file at CpSrc, then whether copy(CpSrc, CpDst) has
\* run and the path of the handle the last call went through
InitCopy ==
  /\ IdleStores /\ dc = <<>> /\ now = 0 /\ wc = <<>> /\ br = <<>> /\ mp = <<>>
  /\ ax \in {[m |-> PutFile(MemoryInit, CpSrc, c), copied |-> FALSE, through |-> <<>>,
              n |-> 0] : c \in {<<>>, <<1>>, <<1, 2>>}}

CpFits == ax.n < CpMaxCalls

CpAfter(r, through) ==
  /\ r.err = "ok"
  /\ ax' = [ax EXCEPT !.m = r.m, !.through = through, !.n = @ + 1]

CpCopy ==
  /\ CpFits /\ FuOthers /\ ~ax.copied
  /\ MCopy(ax.m, CpSrc, CpDst).err = "ok"
  /\ ax' = [ax EXCEPT !.m = MCopy(ax.m, CpSrc, CpDst).m, !.copied = TRUE,
                      !.through = <<>>, !.n = @ + 1]
CpOpen ==
  /\ CpFits /\ FuOthers
  /\ \E path \in {CpSrc, CpDst}, mode \in {"rb+", "wb", "ab"} :
       /\ path \in DOMAIN ax.m.inodes
       /\ CpAfter(MOpen(ax.m, path, mode), <<>>)
CpWrite ==
  /\ CpFits /\ FuOthers
  /\ \E fd \in DOMAIN ax.m.fds, data \in {<<7>>, <<7, 8>>} :
       CpAfter(MWrite(ax.m, fd, data), ax.m.fds[fd].path)
CpTruncate ==
  /\ CpFits /\ FuOthers
  /\ \E fd \in DOMAIN ax.m.fds, length \in 0..1 :
       CpAfter(MTruncate(ax.m, fd, length), ax.m.fds[fd].path)
CpClose ==
  /\ CpFits /\ FuOthers
  /\ \E fd \in DOMAIN ax.m.fds : CpAfter(MClose(ax.m, fd), ax.m.fds[fd].path)

NextCopy == CpCopy \/ CpOpen \/ CpWrite \/ CpTruncate \/ CpClose

SpecCopy == InitCopy /\ [][NextCopy]_vars

\* what the store shows of the file at path: its content and info(path).size
FileOf(m, path) == [content |-> Inode(m, path).content, size |-> Inode(m, path).size]

\* C38: once copy(src, dst) has run, a write, truncate or close through a
\* handle on dst leaves the content and the size of src as they were, and
\* one through a handle on src leaves dst as it was
C38_CopyIndependent ==
  [][(ax.copied /\ ax'.copied) =>
       /\ ax'.through = CpDst => FileOf(ax'.m, CpSrc) = FileOf(ax.m, CpSrc)
       /\ ax'.through = CpSrc => FileOf(ax'.m, CpDst) = FileOf(ax.m, CpDst)]_vars

\* ---------------------------------------------------------------------
\* _forward beside stop (SpecLife under fair scheduling)
\* ---------------------------------------------------------------------

\* the worker and both threads keep taking the steps they can take, and a
\* thread that can take its own response again and again does take it; when
\* start, stop and an operation are called is left open
FairLife ==
  /\ SpecLife
  /\ WF_vars(LfWorkerTake)
  /\ WF_vars(\E req \in br.running : LfWorkerDone(req))
  /\ WF_vars(LfWorkerExit)
  /\ WF_vars(LfSentinel)
  /\ WF_vars(LfJoin)
  /\ \A c \in LfCallers :
       /\ WF_vars(LfSend(c))
       /\ SF_vars(LfGetOwn(c))
       /\ WF_vars(LfPutBack(c))

\* the operation forwarded through Async or Sync waits for its response
OpWaits ==
  /\ br.kind \in {"Async", "Sync"}
  /\ br.call["usr"].pc \in {"send", "get", "hold"}

\* it has returned, or the worker has put its response
OpReturned == br.call["usr"].pc = "idle" \/ br.call["usr"].id \in br.answered

\* C39: an operation forwarded through Async or Sync beside a stop is
\* answered in the end, by the worker before it exits or by a worker
\* started afresh; it does not wait for ever on the queue of a worker that
\* has exited
C39_ForwardBesideStop == OpWaits ~> OpReturned

\* ---------------------------------------------------------------------
\* DescriptorFromAtomicMixin, the write side, with a put that may raise
\* ---------------------------------------------------------------------

\* open(path, 'w') not yet called: the caller, the QueuedIterator, the thread
\* of put, the chunks put has consumed, the write calls made, and the
\* exception of the last call on the handle ("ok" when it returned)
InitPut ==
  /\ IdleStores /\ dc = <<>> /\ now = 0 /\ wc = <<>> /\ br = <<>> /\ mp = <<>>
  /\ ax = [pc |-> "new", queue |-> <<>>, thread |-> "none", taken |-> <<>>,
           stored |-> <<>>, writes |-> 0, err |-> "ok"]

\* open: the thread is started on self.put(path, queued_iterator)
FpOpen ==
  /\ ax.pc = "new"
  /\ ApStep([ax EXCEPT !.pc = "open", !.thread = "running"])

\* write: QueuedIterator.write puts the chunk and returns its length
FpWrite ==
  /\ ax.pc = "open" /\ ax.writes < DfMaxWrites
  /\ \E data \in SeqsUpTo(Byte, DfMaxLen) \ {<<>>} :
       ApStep([ax EXCEPT !.queue = Append(@, Chunk(data)), !.writes = @ + 1,
                         !.err = "ok"])

\* close: QueuedIterator.close puts None, then thread.join()
FpClose ==
  /\ ax.pc = "open"
  /\ ApStep([ax EXCEPT !.queue = Append(@, None), !.pc = "joining"])

\* thread.join() returns once the thread has ended, by return or by an
\* exception; close returns None
FpJoin ==
  /\ ax.pc = "joining" /\ ax.thread \in {"finished", "raised"}
  /\ ApStep([ax EXCEPT !.pc = "closed", !.err = "ok"])

\* the thread of put takes the next item; at None the iteration ends and
\* put stores what it has consumed
FpTake ==
  /\ ax.thread = "running" /\ ax.queue # <<>>
  /\ ApStep(IF Falsy(Head(ax.queue))
            THEN [ax EXCEPT !.queue = Tail(@), !.thread = "finished",
                            !.stored = Concat(ax.taken)]
            ELSE [ax EXCEPT !.queue = Tail(@), !.taken = Append(@, Head(ax.queue).data)])

\* the put of the backend raises: the exception ends the thread
FpRaise ==
  /\ ax.thread = "running"
  /\ ApStep([ax EXCEPT !.thread = "raised"])

NextPut == FpOpen \/ FpWrite \/ FpClose \/ FpJoin \/ FpTake \/ FpRaise

SpecPut == InitPut /\ [][NextPut]_vars

\* a write or the close came back with an exception
Reported == ax.err # "ok"

\* C40: close does not return normally for a handle whose put raised
C40_PutFailureReported ==
  (ax.pc = "closed" /\ ax.thread = "raised") => Reported

====
